---- MODULE Spec2Model ----
(***************************************************************************)
(* Model of the SmartBag location-tracker relay server (src/server.js,     *)
(* second revision, lines 362-1403): the Socket.IO connection registry,    *)
(* the identity handshake, the location state, the per-device              *)
(* Configuration, the PDF history ledger and the broadcast router.         *)
(*                                                                         *)
(* One action is one handler invocation of the single-threaded event loop. *)
(* The events a handler emits are collected, in emission order, in the     *)
(* variable sent; lastOp records which event was handled and with which    *)
(* inputs.                                                                  *)
(***************************************************************************)
EXTENDS Integers, Sequences, FiniteSets, TLC

\* ----------------------------------------------------------------------
\* Bounds of the model
\* ----------------------------------------------------------------------
\* transports the environment opens
NumSockets == 2
\* authenticate messages handled in one behaviour
MaxAuth == 3
\* times the server clock (new Date()) advances in one behaviour
MaxClock == 1
\* location updates handled in one behaviour
MaxUpdates == 2
\* bundle and single-QR uploads handled in one behaviour
MaxUploads == 2
\* photo uploads accepted for one device in one behaviour
MaxPhotos == 1
\* device transports of the Configuration, history and ledger specifications
ConfigSockets == 1

\* ----------------------------------------------------------------------
\* Program constants
\* ----------------------------------------------------------------------
\* const MAX_HISTORY = process.env.MAX_HISTORY || 100
MAX_HISTORY == 100
\* if (history.length > 50) in addToPdfHistory
PDF_HISTORY_LIMIT == 50
\* const maxSize = 5 * 1024 * 1024
MaxPhotoBytes == 5242880
\* let quality = 85
TargetQuality == 85
\* quality -= 10
QualityStep == 10
\* quality > 20
MinQuality == 20

AUTHORIZED_DEVICES == {"raspi-001", "raspi-002", "raspi-tracker-main", "smartbag-device-01"}
VALID_USERS == {"raspi-001", "raspi-002", "smartbag-device-01", "test-device"}

\* ----------------------------------------------------------------------
\* Value domains
\* ----------------------------------------------------------------------
Sockets == 1..NumSockets
NoSocket == 0
\* a property that was never assigned / a field missing from a payload
Undefined == "undefined"
\* deviceId values a device handshake may carry: two authorized identities, one
\* identity that may log in but is not an authorized device, and no deviceId
HandshakeIds == {"raspi-001", "raspi-002", "test-device", Undefined}
\* identities a browser session may be bound to (Undefined: no authenticated session)
SessionIds == {"raspi-001", "raspi-002"}
SessionVals == SessionIds \cup {Undefined}

VARIABLES
    conn,                  \* socket -> "idle" (not yet connected) | "open" | "closed"
    session,               \* socket.handshake.session: the bound deviceId, or Undefined
    deviceType,            \* socket.deviceType: Undefined | "device" | "client"
    deviceId,              \* socket.deviceId
    authenticatedDeviceId, \* socket.authenticatedDeviceId
    listeners,             \* how many times the device listeners were registered on the socket
    timerPending,          \* the 10 s setTimeout of the connection has not fired yet
    connectedDevices,      \* Map deviceId -> socket (NoSocket: no entry)
    nAuth,                 \* authenticate messages handled so far
    rejected,              \* history variable: sockets whose device handshake failed before any role was set
    clock,                 \* the server clock, as read by new Date()
    currentLocation,       \* let currentLocation
    locationHistory,       \* let locationHistory
    acceptedLog,           \* history variable: every record updateLocationData was given, in order
    nUpdates,              \* location messages handled so far
    userConfigurations,    \* Map deviceId -> { qrCodes, itemImages, qrPdf } (NoConfig: no entry)
    pdfHistory,            \* Map deviceId -> ledger, newest first
    files,                 \* backing paths that exist on storage
    nextPdfId,             \* source of the unique part of a ledger entry id
    pendingPhotos,         \* photo uploads suspended in image re-encoding
    nUploads,              \* upload requests handled so far
    sent,                  \* emissions of the last handler, in order
    lastOp,                \* the event the last handler processed
    running,               \* the Node.js process has not been ended by an uncaught exception
    destroyed              \* the sessions that POST /api/logout has destroyed

regVars == <<conn, session, deviceType, deviceId, authenticatedDeviceId, listeners,
             timerPending, connectedDevices, nAuth, rejected>>
locVars == <<currentLocation, locationHistory, acceptedLog, nUpdates>>
cfgVars == <<userConfigurations, pendingPhotos>>
pdfVars == <<pdfHistory, files, nextPdfId>>
vars == <<regVars, clock, locVars, cfgVars, pdfVars, nUploads, sent, lastOp, running, destroyed>>

\* ----------------------------------------------------------------------
\* JavaScript values of the numeric payload fields
\* ----------------------------------------------------------------------
Num(n) == [k |-> "number", v |-> n]
Str(n) == [k |-> "string", v |-> n]     \* the string that spells the number n
Undef  == [k |-> "undefined", v |-> 0]
Null   == [k |-> "null", v |-> 0]
NaN    == [k |-> "NaN", v |-> 0]

\* JavaScript truthiness: 0, NaN, null and undefined are falsy; a non-empty string is truthy
Truthy(x) == (x.k = "number" /\ x.v # 0) \/ x.k = "string"

\* parseFloat(x): a number stays itself, a numeric string is converted, anything else is NaN
ParseFloat(x) ==
    CASE x.k = "number" -> x
      [] x.k = "string" -> Num(x.v)
      [] OTHER          -> NaN

\* ----------------------------------------------------------------------
\* Emission
\* ----------------------------------------------------------------------
Msg(to, event, data) == [to |-> to, event |-> event, data |-> data]
NoData == [none |-> TRUE]

\* socket.emit(event, data): reaches the peer only while the socket is connected
SocketEmit(c, s, event, data) ==
    IF c[s] = "open" THEN <<Msg(s, event, data)>> ELSE <<>>

RECURSIVE EmitUpTo(_, _, _, _)
EmitUpTo(c, n, event, data) ==
    IF n = 0 THEN <<>>
    ELSE EmitUpTo(c, n - 1, event, data) \o SocketEmit(c, n, event, data)

\* io.emit(event, data): every connected socket of the namespace, whatever its role
IoEmit(c, event, data) == EmitUpTo(c, NumSockets, event, data)

\* Array.from(connectedDevices.keys())
RegistryKeys(reg) == {d \in DOMAIN reg : reg[d] # NoSocket}

DeviceStatus(reg) ==
    [connectedDevices |-> RegistryKeys(reg), totalDevices |-> Cardinality(RegistryKeys(reg))]

\* ----------------------------------------------------------------------
\* socket.on('disconnect') and socket.disconnect()
\* ----------------------------------------------------------------------
\* variant: the registry entry is deleted but nobody is told
OnDisconnectSilent(c, reg, s) ==
    IF deviceType[s] = "device" /\ deviceId[s] # Undefined
    THEN [reg |-> [reg EXCEPT ![deviceId[s]] = NoSocket], out |-> <<>>]
    ELSE [reg |-> reg, out |-> <<>>]

\* The 'disconnect' listener of socket s, run on the registry reg after the
\* socket has left the namespace (c is the connection table at that moment).
OnDisconnect(c, reg, s) ==
    IF deviceType[s] = "device" /\ deviceId[s] # Undefined
    THEN LET r1 == [reg EXCEPT ![deviceId[s]] = NoSocket]
         IN  [reg |-> r1, out |-> IoEmit(c, "deviceStatus", DeviceStatus(r1))]
    ELSE [reg |-> reg, out |-> <<>>]

\* variant: the socket is never disconnected by the server
StayConnected(c, reg, s) == [conn |-> c, reg |-> reg, out |-> <<>>]

\* socket.disconnect(): a no-op on a socket that is not connected; otherwise the
\* socket leaves the namespace and its 'disconnect' listener runs synchronously.
SocketDisconnect(c, reg, s) ==
    IF c[s] # "open"
    THEN [conn |-> c, reg |-> reg, out |-> <<>>]
    ELSE LET c1 == [c EXCEPT ![s] = "closed"]
             h  == OnDisconnect(c1, reg, s)
         IN  [conn |-> c1, reg |-> h.reg, out |-> h.out]

\* ----------------------------------------------------------------------
\* Location state
\* ----------------------------------------------------------------------
LocationRecord(lat, lon, acc, ts, dev) ==
    [latitude |-> lat, longitude |-> lon, accuracy |-> acc, timestamp |-> ts, deviceId |-> dev]

\* let currentLocation = { latitude: null, ... }
InitialLocation == LocationRecord(Null, Null, Null, Null, Undefined)

\* new Date().toISOString(): the server clock, as a number value
Now == Num(clock)

\* Payloads of locationUpdate / POST /api/location. A client may add a timestamp of
\* its own (ClientStamp); the record is built from latitude, longitude and accuracy only.
ClientStamp == Str(1999)
LocationPayloads ==
    { [latitude |-> Num(40), longitude |-> Num(-74), accuracy |-> Num(5), timestamp |-> ClientStamp],
      [latitude |-> Num(40), longitude |-> Num(-74), accuracy |-> Num(0), timestamp |-> Undef],
      [latitude |-> Str(41), longitude |-> Str(-73), accuracy |-> Undef,  timestamp |-> Undef] }

\* Payloads no LocationRecord can be made of: a latitude outside [-90, 90], a
\* negative accuracy, and a payload without coordinates
MissingCoordinates ==
    [latitude |-> Undef, longitude |-> Undef, accuracy |-> Undef, timestamp |-> Undef]
InvalidLocationPayloads ==
    { [latitude |-> Num(91), longitude |-> Num(-74), accuracy |-> Num(5),  timestamp |-> Undef],
      [latitude |-> Num(40), longitude |-> Num(-74), accuracy |-> Num(-1), timestamp |-> Undef],
      MissingCoordinates }

\* accuracy: locationData.accuracy ? parseFloat(locationData.accuracy) : null
AccuracyOf(p) == IF Truthy(p.accuracy) THEN ParseFloat(p.accuracy) ELSE Null

\* variant: a timestamp in the payload is taken over
ClientTimestampOf(p) == IF p.timestamp # Undef THEN p.timestamp ELSE Now

\* timestamp: new Date().toISOString()
TimestampOf(p) == Now

\* const completeLocationData = { ... } of the locationUpdate listener and of POST /api/location
CompleteLocationData(p, dev) ==
    LocationRecord(ParseFloat(p.latitude), ParseFloat(p.longitude), AccuracyOf(p),
                   TimestampOf(p), dev)

\* variant: the history is cut one record too early
PushHistoryOffByOne(hist, rec) ==
    LET h1 == Append(hist, rec)
    IN  IF Len(h1) >= MAX_HISTORY THEN Tail(h1) ELSE h1

\* locationHistory.push(...); if (locationHistory.length > MAX_HISTORY) locationHistory.shift()
PushHistory(hist, rec) ==
    LET h1 == Append(hist, rec)
    IN  IF Len(h1) > MAX_HISTORY THEN Tail(h1) ELSE h1

\* variant: the history gets the record that was current before the update
UpdateLocationPushOld(c, st, rec) ==
    [cur  |-> rec,
     hist |-> PushHistory(st.hist, st.cur),
     log  |-> Append(st.log, rec),
     out  |-> st.out \o IoEmit(c, "locationUpdate", rec)]

\* updateLocationData(locationData) applied to the location state st =
\* [cur, hist, log, out]: store, append to the bounded history, then io.emit.
UpdateLocationData(c, st, rec) ==
    [cur  |-> rec,
     hist |-> PushHistory(st.hist, rec),
     log  |-> Append(st.log, rec),
     out  |-> st.out \o IoEmit(c, "locationUpdate", rec)]

\* ----------------------------------------------------------------------
\* Configuration store
\* ----------------------------------------------------------------------
NoConfig == [none |-> TRUE]
\* { qrCodes: [], itemImages: [], completed: false, qrPdf: null }
EmptyConfig == [qrCodes |-> <<>>, itemImages |-> <<>>, qrPdf |-> NoConfig]

HasConfig(cfgs, d) == d \in DOMAIN cfgs /\ cfgs[d] # NoConfig

\* userConfigurations.get(d), after "if (!userConfigurations.has(d)) userConfigurations.set(d, {...})"
ConfigOrNew(cfgs, d) == IF HasConfig(cfgs, d) THEN cfgs[d] ELSE EmptyConfig

SeqMap(Op(_), s) == [i \in 1..Len(s) |-> Op(s[i])]

\* the qrCodes view of configurationData: imageData is read from the field "data"
ClientQrView(qr) ==
    [filename |-> qr.filename, label |-> qr.label, uploadedAt |-> qr.uploadedAt,
     hasPhoto |-> qr.hasPhoto, imageData |-> qr.data]

\* the itemImages view of configurationData and /api/user-config: metadata only
ImageView(img) ==
    [filename |-> img.filename, qrFilename |-> img.qrFilename,
     uploadedAt |-> img.uploadedAt, size |-> img.size]

ConfigurationData(cfg) ==
    [qrCodes |-> SeqMap(ClientQrView, cfg.qrCodes), itemImages |-> SeqMap(ImageView, cfg.itemImages)]

\* ----------------------------------------------------------------------
\* io.on('connection')
\* ----------------------------------------------------------------------
\* a request carries the session sess: the store still holds it (Undefined: the
\* request comes without an authenticated session)
SessionLive(sess) == sess = Undefined \/ sess \notin destroyed

\* A transport connects. Its session is the one the HTTP layer holds for its cookie
\* at that moment; the handshake timer is started. Sockets are numbered in the
\* order in which they connect.
Connect(s, sess) ==
    /\ running
    /\ SessionLive(sess)
    /\ conn[s] = "idle"
    /\ \A t \in Sockets : t < s => conn[t] # "idle"
    /\ conn' = [conn EXCEPT ![s] = "open"]
    /\ session' = [session EXCEPT ![s] = sess]
    /\ timerPending' = [timerPending EXCEPT ![s] = TRUE]
    /\ sent' = <<>>
    /\ lastOp' = [op |-> "connection", sock |-> s]
    /\ UNCHANGED <<deviceType, deviceId, authenticatedDeviceId, listeners, connectedDevices,
                   nAuth, rejected, clock, locVars, cfgVars, pdfVars, nUploads>>
    /\ UNCHANGED <<running, destroyed>>

\* ----------------------------------------------------------------------
\* socket.on('authenticate'), device branch
\* ----------------------------------------------------------------------
\* if (!deviceId || !AUTHORIZED_DEVICES.includes(deviceId)) is false
DeviceAllowed(id) == id # Undefined /\ id \in AUTHORIZED_DEVICES

\* variant: the registered transport is left connected when its identity is taken over
KeepOldConnection(c, reg, id) == [conn |-> c, reg |-> reg, out |-> <<>>]

\* if (connectedDevices.has(deviceId)) { oldSocket = connectedDevices.get(deviceId); oldSocket.disconnect(); }
ReplaceOldConnection(c, reg, id) ==
    IF reg[id] # NoSocket
    THEN SocketDisconnect(c, reg, reg[id])
    ELSE [conn |-> c, reg |-> reg, out |-> <<>>]

\* variant: the close of the replaced transport is handled after the new transport
\* was registered, and removes the registration
InstallThenOldCloses(reg, id, s) ==
    IF connectedDevices[id] \notin {NoSocket, s} /\ conn[connectedDevices[id]] = "open"
    THEN [reg EXCEPT ![id] = NoSocket]
    ELSE [reg EXCEPT ![id] = s]

\* connectedDevices.set(deviceId, socket)
InstallDevice(reg, id, s) == [reg EXCEPT ![id] = s]

AuthenticateDevice(s, id) ==
    /\ running
    /\ conn[s] = "open"
    /\ nAuth < MaxAuth
    /\ nAuth' = nAuth + 1
    /\ IF ~DeviceAllowed(id)
       THEN LET d == SocketDisconnect(conn, connectedDevices, s)
            IN  /\ conn' = d.conn
                /\ connectedDevices' = d.reg
                /\ sent' = SocketEmit(conn, s, "authError", NoData) \o d.out
                /\ rejected' = IF deviceType[s] = Undefined THEN rejected \cup {s} ELSE rejected
                /\ lastOp' = [op |-> "authenticate", type |-> "device", sock |-> s,
                              deviceId |-> id, ok |-> FALSE, wasType |-> deviceType[s],
                              connBefore |-> conn, regBefore |-> connectedDevices]
                /\ UNCHANGED <<deviceType, deviceId, listeners>>
       ELSE LET d  == ReplaceOldConnection(conn, connectedDevices, id)
                r2 == InstallDevice(d.reg, id, s)
            IN  /\ conn' = d.conn
                /\ connectedDevices' = r2
                /\ deviceId' = [deviceId EXCEPT ![s] = id]
                /\ deviceType' = [deviceType EXCEPT ![s] = "device"]
                /\ listeners' = [listeners EXCEPT ![s] = @ + 1]
                /\ sent' = d.out \o SocketEmit(d.conn, s, "authSuccess", NoData)
                                 \o IoEmit(d.conn, "deviceStatus", DeviceStatus(r2))
                /\ lastOp' = [op |-> "authenticate", type |-> "device", sock |-> s,
                              deviceId |-> id, ok |-> TRUE, wasType |-> deviceType[s],
                              connBefore |-> conn, regBefore |-> connectedDevices]
                /\ UNCHANGED rejected
    /\ UNCHANGED <<session, authenticatedDeviceId, timerPending,
                   clock, locVars, cfgVars, pdfVars, nUploads>>
    /\ UNCHANGED <<running, destroyed>>

\* ----------------------------------------------------------------------
\* socket.on('authenticate'), client branch
\* ----------------------------------------------------------------------
\* variant: the session is not looked at
AnySession(s) == TRUE

\* socket.handshake.session && socket.handshake.session.authenticated
SessionAuthenticated(s) == session[s] # Undefined

\* variant: the device is always reported as absent
NeverConnected(reg, dev) == FALSE

\* const isDeviceConnected = connectedDevices.has(socket.authenticatedDeviceId)
IsDeviceConnected(reg, dev) == dev \in DOMAIN reg /\ reg[dev] # NoSocket

\* what an authenticated client is pushed on joining, in emission order
ClientSnapshot(s, dev) ==
    (IF Truthy(currentLocation.latitude) /\ Truthy(currentLocation.longitude)
       THEN SocketEmit(conn, s, "locationUpdate", currentLocation) ELSE <<>>)
    \o SocketEmit(conn, s, "locationHistory", [history |-> locationHistory])
    \o SocketEmit(conn, s, "deviceStatus", DeviceStatus(connectedDevices))
    \o (IF HasConfig(userConfigurations, dev)
          THEN SocketEmit(conn, s, "configurationData", ConfigurationData(userConfigurations[dev]))
          ELSE <<>>)
    \o SocketEmit(conn, s, "deviceConnectionStatus",
                  [connected |-> IsDeviceConnected(connectedDevices, dev), deviceId |-> dev])

AuthenticateClient(s) ==
    /\ running
    /\ conn[s] = "open"
    /\ nAuth < MaxAuth
    /\ nAuth' = nAuth + 1
    /\ deviceType' = [deviceType EXCEPT ![s] = "client"]
    /\ IF SessionAuthenticated(s)
       THEN /\ authenticatedDeviceId' = [authenticatedDeviceId EXCEPT ![s] = session[s]]
            /\ sent' = ClientSnapshot(s, session[s])
       ELSE /\ UNCHANGED authenticatedDeviceId
            /\ sent' = SocketEmit(conn, s, "authRequired", NoData)
    /\ lastOp' = [op |-> "authenticate", type |-> "client", sock |-> s,
                  wasType |-> deviceType[s]]
    /\ UNCHANGED <<conn, session, deviceId, listeners, timerPending, connectedDevices,
                   rejected, clock, locVars, cfgVars, pdfVars, nUploads>>
    /\ UNCHANGED <<running, destroyed>>

\* ----------------------------------------------------------------------
\* transport close and the handshake timer
\* ----------------------------------------------------------------------
\* The peer closes the transport (or the network drops it): the socket leaves the
\* namespace and its 'disconnect' listener runs.
Disconnect(s) ==
    /\ running
    /\ conn[s] = "open"
    /\ LET d == SocketDisconnect(conn, connectedDevices, s)
       IN  /\ conn' = d.conn
           /\ connectedDevices' = d.reg
           /\ sent' = d.out
    /\ lastOp' = [op |-> "disconnect", sock |-> s, wasType |-> deviceType[s],
                  wasDeviceId |-> deviceId[s], regBefore |-> connectedDevices]
    /\ UNCHANGED <<session, deviceType, deviceId, authenticatedDeviceId, listeners,
                   timerPending, nAuth, rejected, clock, locVars, cfgVars, pdfVars, nUploads>>
    /\ UNCHANGED <<running, destroyed>>

\* variant: the timer disconnects whatever the socket has done
AlwaysExpired(s) == TRUE

\* if (!socket.deviceType) in the setTimeout callback
NoHandshakeYet(s) == deviceType[s] = Undefined

\* setTimeout(() => { if (!socket.deviceType) socket.disconnect(); }, 10000) fires
HandshakeTimeout(s) ==
    /\ running
    /\ conn[s] # "idle"
    /\ timerPending[s]
    /\ timerPending' = [timerPending EXCEPT ![s] = FALSE]
    /\ LET d == IF NoHandshakeYet(s) THEN SocketDisconnect(conn, connectedDevices, s)
                ELSE [conn |-> conn, reg |-> connectedDevices, out |-> <<>>]
       IN  /\ conn' = d.conn
           /\ connectedDevices' = d.reg
           /\ sent' = d.out
    /\ lastOp' = [op |-> "timeout", sock |-> s, wasType |-> deviceType[s], wasConn |-> conn[s]]
    /\ UNCHANGED <<session, deviceType, deviceId, authenticatedDeviceId, listeners,
                   nAuth, rejected, clock, locVars, cfgVars, pdfVars, nUploads>>
    /\ UNCHANGED <<running, destroyed>>

\* ----------------------------------------------------------------------
\* The server clock
\* ----------------------------------------------------------------------
\* Time passes between two handlers; two handlers may also read the same instant.
Tick ==
    /\ running
    /\ clock < MaxClock
    /\ clock' = clock + 1
    /\ UNCHANGED <<regVars, locVars, cfgVars, pdfVars, nUploads, sent, lastOp>>
    /\ UNCHANGED <<running, destroyed>>

\* ----------------------------------------------------------------------
\* socket.on('locationUpdate') and POST /api/location
\* ----------------------------------------------------------------------
\* if (socket.deviceId && AUTHORIZED_DEVICES.includes(socket.deviceId))
SenderAuthorized(s) == deviceId[s] # Undefined /\ deviceId[s] \in AUTHORIZED_DEVICES

\* one run of the locationUpdate listener of socket s on payload p
LocationListener(st, s, p) ==
    IF SenderAuthorized(s)
    THEN LET u == UpdateLocationData(conn, st, CompleteLocationData(p, deviceId[s]))
         IN  [u EXCEPT !.out = @ \o SocketEmit(conn, s, "locationAck", [success |-> TRUE])]
    ELSE [st EXCEPT !.out = @ \o SocketEmit(conn, s, "locationError", NoData)]

\* the event is dispatched to every listener registered for it, in registration order
RECURSIVE RunLocationListeners(_, _, _, _)
RunLocationListeners(n, st, s, p) ==
    IF n = 0 THEN st
    ELSE LocationListener(RunLocationListeners(n - 1, st, s, p), s, p)

LocationState == [cur |-> currentLocation, hist |-> locationHistory, log |-> acceptedLog, out |-> <<>>]

LocationUpdate(s, p) ==
    /\ running
    /\ conn[s] = "open"
    /\ nUpdates < MaxUpdates
    /\ LET r == RunLocationListeners(listeners[s], LocationState, s, p)
       IN  /\ currentLocation' = r.cur
           /\ locationHistory' = r.hist
           /\ acceptedLog' = r.log
           /\ sent' = r.out
    /\ nUpdates' = nUpdates + 1
    /\ lastOp' = [op |-> "locationUpdate", sock |-> s, payload |-> p, runs |-> listeners[s],
                  wasType |-> deviceType[s], at |-> clock]
    /\ UNCHANGED <<regVars, clock, cfgVars, pdfVars, nUploads>>
    /\ UNCHANGED <<running, destroyed>>

\* POST /api/location {latitude, longitude, accuracy, deviceId}
HttpLocationStatus(p, dev) ==
    IF ~Truthy(p.latitude) \/ ~Truthy(p.longitude) THEN 400
    ELSE IF dev = Undefined THEN 400
    ELSE IF dev \notin AUTHORIZED_DEVICES THEN 403
    ELSE 200

HttpLocation(p, dev) ==
    /\ running
    /\ nUpdates < MaxUpdates
    /\ LET status == HttpLocationStatus(p, dev)
           r == IF status = 200
                THEN UpdateLocationData(conn, LocationState, CompleteLocationData(p, dev))
                ELSE LocationState
       IN  /\ currentLocation' = r.cur
           /\ locationHistory' = r.hist
           /\ acceptedLog' = r.log
           /\ sent' = r.out
           /\ lastOp' = [op |-> "POST /api/location", payload |-> p, deviceId |-> dev,
                         status |-> status, at |-> clock]
    /\ nUpdates' = nUpdates + 1
    /\ UNCHANGED <<regVars, clock, cfgVars, pdfVars, nUploads>>
    /\ UNCHANGED <<running, destroyed>>

\* ----------------------------------------------------------------------
\* Broadcast router
\* ----------------------------------------------------------------------
\* variant: the bound device of the client is not compared
IsAnyWebClient(s, dev) == deviceType[s] = "client"

\* variant: a client whose session has been destroyed is no longer served
IsLiveWebClientOf(s, dev) ==
    deviceType[s] = "client" /\ authenticatedDeviceId[s] = dev /\ session[s] \notin destroyed

\* socket.deviceType === 'client' && socket.authenticatedDeviceId === deviceId
IsWebClientOf(s, dev) == deviceType[s] = "client" /\ authenticatedDeviceId[s] = dev

RECURSIVE BroadcastUpTo(_, _, _, _)
BroadcastUpTo(n, dev, event, data) ==
    IF n = 0 THEN <<>>
    ELSE BroadcastUpTo(n - 1, dev, event, data)
         \o (IF conn[n] = "open" /\ IsWebClientOf(n, dev) THEN <<Msg(n, event, data)>> ELSE <<>>)

\* broadcastToWebClients(deviceId, event, data): io.sockets.sockets holds the connected sockets
BroadcastToWebClients(dev, event, data) == BroadcastUpTo(NumSockets, dev, event, data)

\* ----------------------------------------------------------------------
\* PDF history ledger
\* ----------------------------------------------------------------------
\* path_module.join('qr-codes', deviceId, `${timestamp}_${filename}`)
PdfFilePath(dev, ts, filename) == [dir |-> dev, stamp |-> ts, name |-> filename]

\* id: `pdf_${Date.now()}_${Math.random()...}`: the clock reading and a fresh random part
PdfId(ts, n) == [stamp |-> ts, rnd |-> n]

\* variant: the evicted entry's file is left on storage
KeepOldFile(fs, path, unlinkOk) == fs

\* try { if (fs.existsSync(p)) fs.unlinkSync(p) } catch (error) { console.error(...) }
\* unlinkOk = FALSE: unlinkSync throws and the error is logged and swallowed
RemoveOldFile(fs, path, unlinkOk) ==
    IF path \in fs /\ unlinkOk THEN fs \ {path} ELSE fs

\* variant: a failed delete of the evicted file undoes the insertion
AddToPdfHistoryUndone(led, entry, unlinkOk) ==
    LET h1 == <<entry>> \o led.hist
    IN  IF Len(h1) > PDF_HISTORY_LIMIT
        THEN IF unlinkOk
             THEN [hist    |-> SubSeq(h1, 1, Len(h1) - 1),
                   files   |-> led.files \ {h1[Len(h1)].filePath},
                   evicted |-> <<h1[Len(h1)]>>]
             ELSE [hist |-> led.hist, files |-> led.files, evicted |-> <<h1[Len(h1)]>>]
        ELSE [hist |-> h1, files |-> led.files, evicted |-> <<>>]

\* history.unshift(historyEntry); if (history.length > 50) { oldEntry = history.pop(); ... }
\* applied to led = [hist, files]; the result also names the evicted entries
AddToPdfHistory(led, entry, unlinkOk) ==
    LET h1 == <<entry>> \o led.hist
    IN  IF Len(h1) > PDF_HISTORY_LIMIT
        THEN [hist    |-> SubSeq(h1, 1, Len(h1) - 1),
              files   |-> RemoveOldFile(led.files, h1[Len(h1)].filePath, unlinkOk),
              evicted |-> <<h1[Len(h1)]>>]
        ELSE [hist |-> h1, files |-> led.files, evicted |-> <<>>]

\* ----------------------------------------------------------------------
\* Bundle upload: socket.on('qrPdfUpload') and POST /api/pdf
\* ----------------------------------------------------------------------
QrFilenames == {"Monday_Keys.png", "Bag.png"}

\* extractLabelFromFilename: the extension is cut off; "A_B" becomes "A - B", a name
\* without "_" stays as it is
ExtractLabelFromFilename(f) ==
    CASE f = "Monday_Keys.png" -> "Monday - Keys"
      [] f = "Bag.png"         -> "Bag"
      [] f = "Unknown.png"     -> "Unknown"

QrInfo(f, label) == [filename |-> f, label |-> label, imageData |-> "img"]

\* qrList values of a bundle
QrLists ==
    { <<QrInfo("Monday_Keys.png", Undefined)>>,
      <<QrInfo("Bag.png", "Gym bag"), QrInfo("Monday_Keys.png", Undefined)>> }

\* payloads of a bundle upload; bytes is the length of the decoded pdfData
PdfPayloads ==
    { [filename |-> "qr.pdf", bytes |-> 7, hasQrList |-> TRUE, qrList |-> l] : l \in QrLists }
\* POST /api/pdf may also come without a qrList
HttpPdfPayloads ==
    PdfPayloads \cup { [filename |-> "qr.pdf", bytes |-> 7, hasQrList |-> FALSE, qrList |-> <<>>] }

\* variant: the entry is created as already photographed
NewQrEntryMarked(qrInfo) ==
    [filename   |-> qrInfo.filename,
     label      |-> IF qrInfo.label # Undefined THEN qrInfo.label
                    ELSE ExtractLabelFromFilename(qrInfo.filename),
     uploadedAt |-> Now,
     hasPhoto   |-> TRUE,
     imageData  |-> qrInfo.imageData,
     data       |-> Undefined]

\* one element of data.qrList.map(qrInfo => ({...}))
NewQrEntry(qrInfo) ==
    [filename   |-> qrInfo.filename,
     label      |-> IF qrInfo.label # Undefined THEN qrInfo.label
                    ELSE ExtractLabelFromFilename(qrInfo.filename),
     uploadedAt |-> Now,
     hasPhoto   |-> FALSE,
     imageData  |-> qrInfo.imageData,
     data       |-> Undefined]

\* userConfig.qrCodes = data.qrList.map(...)
ReplaceQrCodes(qrList) == SeqMap(NewQrEntry, qrList)

\* The entries of the replaced array stay referenced only by the photo uploads of
\* that device that were suspended after finding their QR entry in it.
OrphanOne(q, dev) == IF q.dev = dev THEN [q EXCEPT !.orphan = TRUE] ELSE q
OrphanPending(pending, dev) == [i \in 1..Len(pending) |-> OrphanOne(pending[i], dev)]

\* the filenames of the QR entries of d that are marked as photographed
PhotoMarked(cfgs, d) ==
    IF HasConfig(cfgs, d)
    THEN {cfgs[d].qrCodes[i].filename :
             i \in {j \in 1..Len(cfgs[d].qrCodes) : cfgs[d].qrCodes[j].hasPhoto}}
    ELSE {}

\* the upload state a listener run works on
UploadState ==
    [cfgs |-> userConfigurations, pending |-> pendingPhotos, hist |-> pdfHistory,
     files |-> files, nextId |-> nextPdfId, evicted |-> <<>>, out |-> <<>>]

\* variant: the pointer carries an id of its own instead of the ledger entry's
QrPdfPointerOwnId(p, path, entry) ==
    [filename |-> p.filename, filePath |-> path,
     uploadedAt |-> entry.uploadedAt, historyId |-> PdfId(entry.id.stamp, entry.id.rnd + 1)]

\* userConfig.qrPdf = { filename, ..., filePath: pdfFilePath,
\*                      uploadedAt: historyEntry.uploadedAt, historyId: historyEntry.id }
QrPdfPointer(p, path, entry) ==
    [filename |-> p.filename, filePath |-> path,
     uploadedAt |-> entry.uploadedAt, historyId |-> entry.id]

\* the part common to both paths: save the PDF, record it in the ledger, set the
\* current-PDF pointer. Returns the upload state and the new Configuration of dev.
StorePdf(st, dev, p, unlinkOk) ==
    LET cfg   == ConfigOrNew(st.cfgs, dev)
        path  == PdfFilePath(dev, clock, p.filename)
        entry == [filename |-> p.filename, uploadedAt |-> Now, filePath |-> path,
                  qrCount |-> IF p.hasQrList THEN Len(p.qrList) ELSE 0,
                  fileSize |-> p.bytes, id |-> PdfId(clock, st.nextId)]
        led   == AddToPdfHistory([hist |-> st.hist[dev], files |-> st.files \cup {path}],
                                 entry, unlinkOk)
        qrPdf == QrPdfPointer(p, path, entry)
    IN  [st  |-> [st EXCEPT !.hist[dev] = led.hist, !.files = led.files,
                            !.nextId = @ + 1, !.evicted = @ \o led.evicted],
         cfg |-> [cfg EXCEPT !.qrPdf = qrPdf]]

\* one run of the qrPdfUpload listener of socket s
QrPdfListener(st, s, p, unlinkOk) ==
    IF SenderAuthorized(s)
    THEN LET dev  == deviceId[s]
             r    == StorePdf(st, dev, p, unlinkOk)
             cfg2 == [r.cfg EXCEPT !.qrCodes = ReplaceQrCodes(p.qrList)]
         IN  [r.st EXCEPT
                !.cfgs[dev] = cfg2,
                !.pending = OrphanPending(@, dev),
                !.out = @ \o BroadcastToWebClients(dev, "qrPdfReceived",
                                 [qrCodes |-> cfg2.qrCodes,
                                  pdfInfo |-> [filename |-> p.filename,
                                               totalQRs |-> Len(p.qrList)]])
                          \o SocketEmit(conn, s, "qrPdfUploadAck",
                                 [success |-> TRUE, filename |-> p.filename,
                                  processedQRs |-> Len(cfg2.qrCodes)])]
    ELSE [st EXCEPT !.out = @ \o SocketEmit(conn, s, "qrPdfUploadError", NoData)]

RECURSIVE RunQrPdfListeners(_, _, _, _, _)
RunQrPdfListeners(n, st, s, p, unlinkOk) ==
    IF n = 0 THEN st
    ELSE QrPdfListener(RunQrPdfListeners(n - 1, st, s, p, unlinkOk), s, p, unlinkOk)

ApplyUpload(r) ==
    /\ userConfigurations' = r.cfgs
    /\ pendingPhotos' = r.pending
    /\ pdfHistory' = r.hist
    /\ files' = r.files
    /\ nextPdfId' = r.nextId
    /\ sent' = r.out

QrPdfUpload(s, p, unlinkOk) ==
    /\ running
    /\ conn[s] = "open"
    /\ nUploads < MaxUploads
    /\ nUploads' = nUploads + 1
    /\ LET r == RunQrPdfListeners(listeners[s], UploadState, s, p, unlinkOk)
       IN  /\ ApplyUpload(r)
           /\ lastOp' = [op |-> "qrPdfUpload", sock |-> s, payload |-> p, runs |-> listeners[s],
                         deviceId |-> deviceId[s], evicted |-> r.evicted,
                         unlinkFailed |-> (r.evicted # <<>> /\ ~unlinkOk), at |-> clock,
                         historyBefore |-> pdfHistory,
                         photosBefore |-> PhotoMarked(userConfigurations, deviceId[s])]
    /\ UNCHANGED <<regVars, clock, locVars>>
    /\ UNCHANGED <<running, destroyed>>

\* POST /api/pdf {filename, pdfData, qrList, deviceId}; qrList may be missing
HttpPdfStatus(dev) ==
    IF dev = Undefined THEN 400
    ELSE IF dev \notin AUTHORIZED_DEVICES THEN 403
    ELSE 200

HttpPdfHandler(st, dev, p, unlinkOk) ==
    LET r    == StorePdf(st, dev, p, unlinkOk)
        cfg2 == IF p.hasQrList
                THEN [r.cfg EXCEPT !.qrCodes = ReplaceQrCodes(p.qrList)]
                ELSE r.cfg
    IN  [r.st EXCEPT
           !.cfgs[dev] = cfg2,
           !.pending = IF p.hasQrList THEN OrphanPending(@, dev) ELSE @,
           !.out = @ \o BroadcastToWebClients(dev, "pdfReceived",
                            [filename |-> p.filename, qrCodes |-> cfg2.qrCodes,
                             uploadedAt |-> Now])]

HttpPdf(dev, p, unlinkOk) ==
    /\ running
    /\ nUploads < MaxUploads
    /\ nUploads' = nUploads + 1
    /\ LET status == HttpPdfStatus(dev)
           r == IF status = 200 THEN HttpPdfHandler(UploadState, dev, p, unlinkOk)
                ELSE UploadState
       IN  /\ ApplyUpload(r)
           /\ lastOp' = [op |-> "POST /api/pdf", payload |-> p, deviceId |-> dev,
                         status |-> status, evicted |-> r.evicted,
                         unlinkFailed |-> (r.evicted # <<>> /\ ~unlinkOk), at |-> clock,
                         historyBefore |-> pdfHistory,
                         photosBefore |-> PhotoMarked(userConfigurations, dev),
                         processedQRs |-> IF status = 200 THEN Len(r.cfgs[dev].qrCodes) ELSE 0]
    /\ UNCHANGED <<regVars, clock, locVars>>
    /\ UNCHANGED <<running, destroyed>>

\* ----------------------------------------------------------------------
\* Legacy single-QR upload: socket.on('qrUpload')
\* ----------------------------------------------------------------------
\* const qrData = { filename, data, label, uploadedAt, hasPhoto: false }
NewSingleQr(q) ==
    [filename   |-> q.filename,
     label      |-> IF q.label # Undefined THEN q.label ELSE ExtractLabelFromFilename(q.filename),
     uploadedAt |-> Now,
     hasPhoto   |-> FALSE,
     imageData  |-> Undefined,
     data       |-> q.imageData]

QrUploadListener(st, s, q) ==
    IF SenderAuthorized(s)
    THEN LET dev == deviceId[s]
             cfg == ConfigOrNew(st.cfgs, dev)
             qr  == NewSingleQr(q)
         IN  [st EXCEPT
                !.cfgs[dev] = [cfg EXCEPT !.qrCodes = Append(@, qr)],
                !.out = @ \o BroadcastToWebClients(dev, "qrCodeReceived", qr)
                          \o SocketEmit(conn, s, "qrUploadAck",
                                        [success |-> TRUE, filename |-> q.filename])]
    ELSE [st EXCEPT !.out = @ \o SocketEmit(conn, s, "qrUploadError", NoData)]

RECURSIVE RunQrUploadListeners(_, _, _, _)
RunQrUploadListeners(n, st, s, q) ==
    IF n = 0 THEN st
    ELSE QrUploadListener(RunQrUploadListeners(n - 1, st, s, q), s, q)

QrUpload(s, q) ==
    /\ running
    /\ conn[s] = "open"
    /\ nUploads < MaxUploads
    /\ nUploads' = nUploads + 1
    /\ LET r == RunQrUploadListeners(listeners[s], UploadState, s, q)
       IN  /\ ApplyUpload(r)
           /\ lastOp' = [op |-> "qrUpload", sock |-> s, payload |-> q, runs |-> listeners[s],
                         deviceId |-> deviceId[s], at |-> clock]
    /\ UNCHANGED <<regVars, clock, locVars>>
    /\ UNCHANGED <<running, destroyed>>

\* ----------------------------------------------------------------------
\* POST /api/upload-photo/:qrFilename
\* ----------------------------------------------------------------------
\* qrFilename.replace(/\.[^/.]+$/, '.jpg')
PhotoFilename(f) ==
    CASE f = "Monday_Keys.png" -> "Monday_Keys.jpg"
      [] f = "Bag.png"         -> "Bag.jpg"
      [] f = "Unknown.png"     -> "Unknown.jpg"

\* userConfig.qrCodes.find(qr => qr.filename === qrFilename): index of the first match, 0 if none
FindQr(qrCodes, f) ==
    IF \E i \in 1..Len(qrCodes) : qrCodes[i].filename = f
    THEN CHOOSE i \in 1..Len(qrCodes) :
            /\ qrCodes[i].filename = f
            /\ \A j \in 1..(i - 1) : qrCodes[j].filename # f
    ELSE 0

\* variant: the QR entry is not looked up
UploadPhotoStatusNoLookup(sess, f) ==
    IF sess = Undefined THEN 401
    ELSE IF ~HasConfig(userConfigurations, sess) THEN 404
    ELSE 200

\* the checks before the first await
UploadPhotoStatus(sess, f) ==
    IF sess = Undefined THEN 401
    ELSE IF ~HasConfig(userConfigurations, sess) THEN 404
    ELSE IF FindQr(userConfigurations[sess].qrCodes, f) = 0 THEN 404
    ELSE 200

\* An uploaded image, by what the JPEG encoder makes of it: at a quality above fitsAt
\* the encoded size exceeds maxSize, at a quality of fitsAt or below it is bytes.
SmallImage == [fitsAt |-> 100, bytes |-> 3]
Images ==
    { SmallImage,
      [fitsAt |-> 60, bytes |-> MaxPhotoBytes],
      [fitsAt |-> 22, bytes |-> MaxPhotoBytes],
      [fitsAt |-> 17, bytes |-> MaxPhotoBytes],
      [fitsAt |-> 0,  bytes |-> MaxPhotoBytes] }

\* (await sharp(file.path).jpeg({ quality }).resize(...).toBuffer()).length
EncodedSize(img, quality) == IF quality > img.fitsAt THEN MaxPhotoBytes + 1 ELSE img.bytes

\* while (finalBuffer.length > maxSize && quality > 20)
MustReencode(q) == q.size > MaxPhotoBytes /\ q.quality > MinQuality

\* The request is checked and its QR entry found; the handler then suspends in
\* "await sharp(...).jpeg({ quality: 85 })...toBuffer()". A rejected request ends here.
UploadPhotoBegin(sess, f, img) ==
    /\ running
    /\ SessionLive(sess)
    /\ LET status == UploadPhotoStatus(sess, f)
       IN  /\ status = 200 =>
                 Len(userConfigurations[sess].itemImages) + Len(pendingPhotos) < MaxPhotos
           /\ pendingPhotos' =
                 IF status = 200
                 THEN Append(pendingPhotos,
                        [dev |-> sess, qrFilename |-> f,
                         idx |-> FindQr(userConfigurations[sess].qrCodes, f), orphan |-> FALSE,
                         image |-> img, quality |-> TargetQuality,
                         size |-> EncodedSize(img, TargetQuality), steps |-> 0])
                 ELSE pendingPhotos
           /\ lastOp' = [op |-> "upload-photo", session |-> sess, qrFilename |-> f,
                         status |-> status, done |-> FALSE]
    /\ sent' = <<>>
    /\ UNCHANGED <<regVars, clock, locVars, userConfigurations, pdfVars, nUploads>>
    /\ UNCHANGED <<running, destroyed>>

\* One iteration of the loop: quality -= 10 and the image is encoded again, the
\* handler suspended in the await meanwhile. steps counts the iterations.
UploadPhotoReencode(k) ==
    /\ running
    /\ k \in 1..Len(pendingPhotos)
    /\ MustReencode(pendingPhotos[k])
    /\ LET q  == pendingPhotos[k]
           q2 == q.quality - QualityStep
       IN  /\ pendingPhotos' = [pendingPhotos EXCEPT ![k] =
                 [q EXCEPT !.quality = q2, !.size = EncodedSize(q.image, q2), !.steps = @ + 1]]
           /\ lastOp' = [op |-> "re-encode", session |-> q.dev, qrFilename |-> q.qrFilename,
                         quality |-> q2]
    /\ sent' = <<>>
    /\ UNCHANGED <<regVars, clock, locVars, userConfigurations, pdfVars, nUploads>>
    /\ UNCHANGED <<running, destroyed>>

\* variant: every QR entry of the Configuration is marked
MarkEveryEntry(qrCodes, q) ==
    [i \in 1..Len(qrCodes) |-> [qrCodes[i] EXCEPT !.hasPhoto = TRUE]]

\* qrCode.hasPhoto = true, on the entry object found before the await
MarkHasPhoto(qrCodes, q) ==
    IF q.orphan THEN qrCodes ELSE [qrCodes EXCEPT ![q.idx].hasPhoto = TRUE]

\* The re-encoding is done: the photo is stored, the Configuration updated, the
\* photo pushed to the device and the upload announced.
UploadPhotoFinish(k) ==
    /\ running
    /\ k \in 1..Len(pendingPhotos)
    /\ ~MustReencode(pendingPhotos[k])
    /\ pendingPhotos' = SubSeq(pendingPhotos, 1, k - 1) \o SubSeq(pendingPhotos, k + 1, Len(pendingPhotos))
    /\ LET q     == pendingPhotos[k]
           cfg   == userConfigurations[q.dev]
           photo == [filename |-> PhotoFilename(q.qrFilename), qrFilename |-> q.qrFilename,
                     uploadedAt |-> Now, size |-> q.size, compressed |-> TRUE]
           dsock == IF q.dev \in DOMAIN connectedDevices THEN connectedDevices[q.dev]
                    ELSE NoSocket
       IN  /\ userConfigurations' =
                 [userConfigurations EXCEPT ![q.dev] =
                     [cfg EXCEPT !.itemImages = Append(@, photo),
                                 !.qrCodes = MarkHasPhoto(@, q)]]
           /\ sent' = (IF dsock # NoSocket
                         THEN SocketEmit(conn, dsock, "photoData",
                                         [filename |-> photo.filename, originalQR |-> q.qrFilename])
                         ELSE <<>>)
                      \o BroadcastToWebClients(q.dev, "photoUploaded",
                             [qrFilename |-> q.qrFilename, photoFilename |-> photo.filename,
                              size |-> photo.size])
           /\ lastOp' = [op |-> "upload-photo", session |-> q.dev, qrFilename |-> q.qrFilename,
                         status |-> 200, done |-> TRUE, orphan |-> q.orphan,
                         sentToPi |-> (dsock # NoSocket), image |-> q.image,
                         quality |-> q.quality, steps |-> q.steps, size |-> q.size]
    /\ UNCHANGED <<regVars, clock, locVars, pdfVars, nUploads>>
    /\ UNCHANGED <<running, destroyed>>

\* ----------------------------------------------------------------------
\* Messages whose handling throws
\* ----------------------------------------------------------------------
\* authenticate without payload: "const { deviceId, type } = data" throws a TypeError;
\* qrPdfUpload without qrList: "data.qrList.length" throws a TypeError;
\* qrPdfUpload without pdfData: "Buffer.from(data.pdfData, 'base64')" throws a TypeError
MalformedMessages ==
    { [event |-> "authenticate", missing |-> "payload"],
      [event |-> "qrPdfUpload",  missing |-> "qrList"],
      [event |-> "qrPdfUpload",  missing |-> "pdfData"] }

\* the socket has a listener for the event that gets as far as the throwing statement
ListenerThrows(s, m) ==
    \/ m.event = "authenticate"
    \/ m.event = "qrPdfUpload" /\ listeners[s] >= 1 /\ SenderAuthorized(s)

\* A listener of socket s throws on message m. Nothing catches the exception: it
\* ends the process, and with it every connection and every timer.
MalformedMessage(s, m) ==
    /\ running
    /\ conn[s] = "open"
    /\ ListenerThrows(s, m)
    /\ running' = FALSE
    /\ UNCHANGED destroyed
    /\ conn' = [t \in Sockets |-> IF conn[t] = "open" THEN "closed" ELSE conn[t]]
    /\ timerPending' = [t \in Sockets |-> FALSE]
    /\ sent' = <<>>
    /\ lastOp' = [op |-> "malformed", sock |-> s, event |-> m.event, missing |-> m.missing]
    /\ UNCHANGED <<session, deviceType, deviceId, authenticatedDeviceId, listeners,
                   connectedDevices, nAuth, rejected, clock, locVars, cfgVars, pdfVars, nUploads>>

\* ----------------------------------------------------------------------
\* Initial state and the registry specification
\* ----------------------------------------------------------------------
Init ==
    /\ conn = [s \in Sockets |-> "idle"]
    /\ session = [s \in Sockets |-> Undefined]
    /\ deviceType = [s \in Sockets |-> Undefined]
    /\ deviceId = [s \in Sockets |-> Undefined]
    /\ authenticatedDeviceId = [s \in Sockets |-> Undefined]
    /\ listeners = [s \in Sockets |-> 0]
    /\ timerPending = [s \in Sockets |-> FALSE]
    /\ connectedDevices = [d \in AUTHORIZED_DEVICES |-> NoSocket]
    /\ nAuth = 0
    /\ rejected = {}
    /\ clock = 0
    /\ currentLocation = InitialLocation
    /\ locationHistory = <<>>
    /\ acceptedLog = <<>>
    /\ nUpdates = 0
    /\ userConfigurations = [d \in AUTHORIZED_DEVICES |-> NoConfig]
    /\ pdfHistory = [d \in AUTHORIZED_DEVICES |-> <<>>]
    /\ files = {}
    /\ nextPdfId = 0
    /\ pendingPhotos = <<>>
    /\ nUploads = 0
    /\ sent = <<>>
    /\ lastOp = [op |-> "init"]
    /\ running = TRUE
    /\ destroyed = {}

\* ----------------------------------------------------------------------
\* Properties of the connection registry
\* ----------------------------------------------------------------------
IsDeviceHandshake == lastOp.op = "authenticate" /\ lastOp.type = "device"

\* the connected transports that hold the device identity d: as the registered
\* transport of d, or with the device role under that identity
DeviceTransports(d) ==
    {s \in Sockets : /\ conn[s] = "open"
                     /\ \/ connectedDevices[d] = s
                        \/ deviceType[s] = "device" /\ deviceId[s] = d}

\* C1: for every authorized device identity at most one connected transport holds
\* that identity; when a device handshake for an identity that another transport
\* was registered under completes, the new transport is the registered one and
\* the earlier transport has been disconnected.
C1_OneTransportPerDevice ==
    /\ \A d \in AUTHORIZED_DEVICES : Cardinality(DeviceTransports(d)) <= 1
    /\ (IsDeviceHandshake /\ lastOp.ok) =>
          LET old == lastOp.regBefore[lastOp.deviceId]
          IN  /\ connectedDevices[lastOp.deviceId] = lastOp.sock
              /\ (old # NoSocket /\ old # lastOp.sock) => conn[old] = "closed"

\* a handshake has taken an identity over from another transport that was connected
C1_Replaced ==
    /\ IsDeviceHandshake /\ lastOp.ok
    /\ LET old == lastOp.regBefore[lastOp.deviceId]
       IN  /\ old # NoSocket /\ old # lastOp.sock
           /\ lastOp.connBefore[old] = "open"
           /\ conn[old] = "closed"
    /\ conn[lastOp.sock] = "open"

\* C8: when the handshake timer of a transport fires, the transport is disconnected
\* if it has no role yet, and is left as it was if it has one; a connected
\* transport without a role always has its timer still pending.
C8_HandshakeTimer ==
    /\ \A s \in Sockets : (conn[s] = "open" /\ deviceType[s] = Undefined) => timerPending[s]
    /\ lastOp.op = "timeout" =>
          /\ ~timerPending[lastOp.sock]
          /\ lastOp.wasType = Undefined => conn[lastOp.sock] = "closed"
          /\ lastOp.wasType # Undefined => conn[lastOp.sock] = lastOp.wasConn

\* the timer has fired on a connected transport that never sent a handshake
C8_TimedOut ==
    /\ lastOp.op = "timeout"
    /\ lastOp.wasType = Undefined
    /\ lastOp.wasConn = "open"
    /\ conn[lastOp.sock] = "closed"

\* the connected transports with the browser-client role
OpenClients == {s \in Sockets : conn[s] = "open" /\ deviceType[s] = "client"}

\* the last deviceStatus event that transport s received in this step carries list
LastStatusIs(s, list) ==
    \E i \in 1..Len(sent) :
        /\ sent[i] = Msg(s, "deviceStatus", [connectedDevices |-> list,
                                            totalDevices |-> Cardinality(list)])
        /\ \A j \in (i + 1)..Len(sent) :
              ~(sent[j].to = s /\ sent[j].event = "deviceStatus")

C9_RejectedHandshake ==
    /\ (IsDeviceHandshake /\ ~lastOp.ok /\ lastOp.wasType = Undefined) =>
          /\ ~DeviceAllowed(lastOp.deviceId)
          /\ sent = <<Msg(lastOp.sock, "authError", NoData)>>
          /\ conn[lastOp.sock] = "closed"
          /\ connectedDevices = lastOp.regBefore
          /\ lastOp.sock \in rejected
    /\ \A s \in rejected :
          /\ conn[s] = "closed"
          /\ listeners[s] = 0
          /\ \A d \in DOMAIN connectedDevices : connectedDevices[d] # s
          /\ \A i \in 1..Len(sent) : sent[i].to = s => sent[i].event = "authError"
    /\ lastOp.op \in {"locationUpdate", "qrPdfUpload", "qrUpload"} => lastOp.sock \notin rejected

\* an unlisted identity has been rejected while a device was registered
C9_Rejected ==
    /\ IsDeviceHandshake /\ ~lastOp.ok /\ lastOp.wasType = Undefined
    /\ lastOp.deviceId = "test-device"
    /\ lastOp.connBefore[lastOp.sock] = "open"
    /\ RegistryKeys(lastOp.regBefore) # {}
    /\ conn[lastOp.sock] = "closed"

ScopedEvents == {"qrPdfReceived", "pdfReceived", "qrCodeReceived", "photoUploaded"}

\* the transports that received a device-scoped event in this step
ScopedRecipients == {sent[i].to : i \in {j \in 1..Len(sent) : sent[j].event \in ScopedEvents}}

\* the connected transports with the client role whose session is bound to d
BoundClients(d) ==
    {s \in Sockets : conn[s] = "open" /\ deviceType[s] = "client" /\ session[s] = d}

\* the device whose clients the step's scoped event is for (Undefined: the step has none)
\* and the name of that event
ScopedTarget ==
    CASE lastOp.op = "qrPdfUpload" /\ lastOp.runs >= 1      -> [dev |-> lastOp.deviceId, event |-> "qrPdfReceived"]
      [] lastOp.op = "qrUpload" /\ lastOp.runs >= 1         -> [dev |-> lastOp.deviceId, event |-> "qrCodeReceived"]
      [] lastOp.op = "POST /api/pdf" /\ lastOp.status = 200 -> [dev |-> lastOp.deviceId, event |-> "pdfReceived"]
      [] lastOp.op = "upload-photo" /\ lastOp.done          -> [dev |-> lastOp.session, event |-> "photoUploaded"]
      [] OTHER                                              -> [dev |-> Undefined, event |-> Undefined]

C3_UnauthenticatedClient ==
    /\ (lastOp.op = "authenticate" /\ lastOp.type = "client" /\ session[lastOp.sock] = Undefined) =>
          /\ sent = <<Msg(lastOp.sock, "authRequired", NoData)>>
          /\ conn[lastOp.sock] = "open"
          /\ deviceType[lastOp.sock] = "client"
          /\ authenticatedDeviceId[lastOp.sock] = Undefined
    /\ \A i \in 1..Len(sent) :
          sent[i].event \in ScopedEvents \cup {"configurationData"} =>
             session[sent[i].to] # Undefined

\* an upload is announced to a bound client while an unauthenticated client is connected
C3_Bystander ==
    /\ ScopedRecipients # {}
    /\ \E s \in OpenClients : session[s] = Undefined /\ s \notin ScopedRecipients

\* ----------------------------------------------------------------------
\* Properties of the location history, the Configuration and the PDF ledger
\* ----------------------------------------------------------------------
\* the last n elements of log (all of them if it has fewer)
LastN(log, n) ==
    IF Len(log) <= n THEN log ELSE SubSeq(log, Len(log) - n + 1, Len(log))

\* C5: locationHistory never holds more than MAX_HISTORY records and always equals
\* the most recent min(k, MAX_HISTORY) of the k records accepted so far, in
\* acceptance order; the records accepted before those are absent from it.
C5_BoundedHistory ==
    /\ Len(locationHistory) <= MAX_HISTORY
    /\ locationHistory = LastN(acceptedLog, MAX_HISTORY)
    /\ \A j \in 1..(Len(acceptedLog) - MAX_HISTORY) :
          \A i \in 1..Len(locationHistory) : locationHistory[i] # acceptedLog[j]

\* an accepted update has pushed the oldest record out of a full history
C5_Overflow ==
    /\ lastOp.op \in {"locationUpdate", "POST /api/location"}
    /\ Len(acceptedLog) = MAX_HISTORY + 1
    /\ Len(locationHistory) = MAX_HISTORY
    /\ locationHistory[MAX_HISTORY] = currentLocation
    /\ locationHistory[1] = acceptedLog[2]

\* the step is an accepted bundle upload that carries a qrList
BundleAccepted ==
    \/ lastOp.op = "qrPdfUpload" /\ lastOp.runs >= 1
    \/ lastOp.op = "POST /api/pdf" /\ lastOp.status = 200 /\ lastOp.payload.hasQrList

\* the label a QR entry gets: the one uploaded, or the one derived from the filename
LabelOf(qrInfo) ==
    IF qrInfo.label # Undefined THEN qrInfo.label
    ELSE IF qrInfo.filename = "Monday_Keys.png" THEN "Monday - Keys" ELSE "Bag"

\* C6: after an accepted bundle upload for device D, the QR entries of D are exactly
\* the entries of the uploaded qrList, in order (so every earlier entry whose
\* filename is not in the list is gone), and every entry has hasPhoto = false, also
\* where an earlier entry of the same filename had hasPhoto = true.
C6_BundleReplaces ==
    BundleAccepted =>
       LET qrs  == userConfigurations[lastOp.deviceId].qrCodes
           list == lastOp.payload.qrList
       IN  /\ Len(qrs) = Len(list)
           /\ \A i \in 1..Len(list) :
                 /\ qrs[i].filename = list[i].filename
                 /\ qrs[i].imageData = list[i].imageData
                 /\ qrs[i].label = LabelOf(list[i])
                 /\ qrs[i].hasPhoto = FALSE

\* a bundle replaces entries of which one, of a filename that is uploaded again,
\* had a photo
C6_PhotoReset ==
    /\ lastOp.op = "qrPdfUpload" /\ lastOp.runs >= 1
    /\ \E i \in 1..Len(lastOp.payload.qrList) :
          lastOp.payload.qrList[i].filename \in lastOp.photosBefore
    /\ PhotoMarked(userConfigurations, lastOp.deviceId) = {}

\* the step is an accepted PDF upload, on either path
PdfAccepted ==
    \/ lastOp.op = "qrPdfUpload" /\ lastOp.runs >= 1
    \/ lastOp.op = "POST /api/pdf" /\ lastOp.status = 200

\* how many ledger entries the step inserted
Inserted == IF lastOp.op = "qrPdfUpload" THEN lastOp.runs ELSE 1

NewestFirst(h) ==
    \A i, j \in 1..Len(h) : i < j => h[i].uploadedAt.v >= h[j].uploadedAt.v

\* what an accepted upload does to the ledgers: the new entries are at the head of
\* the device's ledger, the earlier entries follow in their order, the entries
\* that no longer fit are the oldest ones and are the ones evicted, and the ledgers
\* of the other devices are untouched
LedgerStep ==
    LET old == lastOp.historyBefore[lastOp.deviceId]
        new == pdfHistory[lastOp.deviceId]
        n   == Inserted
        gone == Len(old) + n - Len(new)
    IN  /\ Len(new) = IF Len(old) + n > PDF_HISTORY_LIMIT THEN PDF_HISTORY_LIMIT
                      ELSE Len(old) + n
        /\ \A i \in (n + 1)..Len(new) : new[i] = old[i - n]
        /\ \A i \in 1..n : new[i].uploadedAt = Num(lastOp.at)
        /\ Len(lastOp.evicted) = gone
        /\ \A i \in 1..gone : lastOp.evicted[i] = old[Len(old) + 1 - i]
        /\ \A d \in DOMAIN pdfHistory :
              d # lastOp.deviceId => pdfHistory[d] = lastOp.historyBefore[d]

LedgerBounded ==
    \A d \in DOMAIN pdfHistory :
        Len(pdfHistory[d]) <= PDF_HISTORY_LIMIT /\ NewestFirst(pdfHistory[d])

\* C4 as claimed: every ledger holds at most 50 entries, newest first; an insertion
\* into a full ledger removes exactly the oldest entry and no other, and the
\* removed entry's backing file no longer exists.
C4_FileAlwaysRemoved ==
    /\ LedgerBounded
    /\ PdfAccepted =>
          /\ LedgerStep
          /\ \A i \in 1..Len(lastOp.evicted) : lastOp.evicted[i].filePath \notin files

\* C4, amended: every ledger holds at most 50 entries, newest first; an insertion
\* into a full ledger removes exactly the oldest entry and no other, and the
\* removed entry's backing file no longer exists unless deleting it failed.
C4_BoundedLedger ==
    /\ LedgerBounded
    /\ PdfAccepted =>
          /\ LedgerStep
          /\ ~lastOp.unlinkFailed =>
                \A i \in 1..Len(lastOp.evicted) : lastOp.evicted[i].filePath \notin files

\* the 51st entry has been inserted: the oldest entry and its file are gone
C4_Evicted ==
    /\ PdfAccepted
    /\ Len(lastOp.historyBefore[lastOp.deviceId]) = PDF_HISTORY_LIMIT
    /\ Len(pdfHistory[lastOp.deviceId]) = PDF_HISTORY_LIMIT
    /\ Len(lastOp.evicted) = 1
    /\ ~lastOp.unlinkFailed
    /\ lastOp.evicted[1].filePath \notin files

\* ----------------------------------------------------------------------
\* Properties of the location update
\* ----------------------------------------------------------------------
\* the number a payload field stands for, whether sent as a number or as its spelling
NumberIn(x) == IF x.k = "string" THEN Num(x.v) ELSE x

\* the accuracy of a message: the number sent, or null if the message has none
MessageAccuracy(p) == IF p.accuracy = Undef THEN Null ELSE NumberIn(p.accuracy)

\* position in sent of the first event of that name to transport s (0: none)
FirstAt(s, event) ==
    IF \E i \in 1..Len(sent) : sent[i].to = s /\ sent[i].event = event
    THEN CHOOSE i \in 1..Len(sent) :
            /\ sent[i].to = s /\ sent[i].event = event
            /\ \A j \in 1..(i - 1) : ~(sent[j].to = s /\ sent[j].event = event)
    ELSE 0

\* what C7 says of an accepted locationUpdate, but for the accuracy of the record
UpdateStoredAndSent ==
    LET p == lastOp.payload
        s == lastOp.sock
    IN  /\ currentLocation.latitude = NumberIn(p.latitude)
        /\ currentLocation.longitude = NumberIn(p.longitude)
        /\ currentLocation.deviceId = deviceId[s]
        /\ connectedDevices[deviceId[s]] = s
        /\ currentLocation.timestamp = Num(lastOp.at)
        /\ locationHistory # <<>>
        /\ locationHistory[Len(locationHistory)] = currentLocation
        /\ \A c \in OpenClients :
              /\ FirstAt(c, "locationUpdate") # 0
              /\ sent[FirstAt(c, "locationUpdate")].data = currentLocation
              /\ FirstAt(c, "locationUpdate") < FirstAt(s, "locationAck")
        /\ FirstAt(s, "locationAck") # 0
        /\ sent[Len(sent)] = Msg(s, "locationAck", [success |-> TRUE])

\* C7: after a locationUpdate accepted from a transport authenticated as device D the
\* current record carries the latitude, longitude and accuracy of the message,
\* deviceId = D and the server's timestamp; it is the newest record of the history,
\* every connected client transport has received that record, and the sender has
\* then received locationAck.
C7_RecordOfMessage ==
    (lastOp.op = "locationUpdate" /\ lastOp.runs >= 1) =>
        /\ UpdateStoredAndSent
        /\ currentLocation.accuracy = MessageAccuracy(lastOp.payload)

\* connections, handshakes and closes of all transports, with sessions from Sess
\* and device handshakes for the identities in Ids
Handshakes(Sess, Ids) ==
    \/ \E s \in Sockets, sess \in Sess : Connect(s, sess)
    \/ \E s \in Sockets, id \in Ids : AuthenticateDevice(s, id)
    \/ \E s \in Sockets : AuthenticateClient(s)
    \/ \E s \in Sockets : Disconnect(s)

\* the transports in S connect without a session, handshake as device raspi-001 and close
DeviceLinks(S) ==
    \/ \E s \in S : Connect(s, Undefined)
    \/ \E s \in S : AuthenticateDevice(s, "raspi-001")
    \/ \E s \in S : Disconnect(s)

RegistryNext ==
    \/ Handshakes({"raspi-001", Undefined}, {"raspi-001", "raspi-002", "test-device"})
    \/ \E s \in Sockets : HandshakeTimeout(s)

\* The connection registry alone: handshakes, closes and handshake timers.
Spec == Init /\ [][RegistryNext]_vars

LocationNext ==
    \/ Handshakes({Undefined}, {"raspi-001", "raspi-002"})
    \/ \E s \in Sockets, p \in LocationPayloads : LocationUpdate(s, p)

\* The registry together with the locationUpdate messages of the transports.
SpecLocation == Init /\ [][LocationNext]_vars

QrNames == QrFilenames \cup {"Unknown.png"}
SingleQrPayloads == { [filename |-> "Bag.png", label |-> Undefined, imageData |-> "img"] }

ConfigNext ==
    \/ DeviceLinks(1..ConfigSockets)
    \/ \E s \in 1..ConfigSockets, p \in PdfPayloads : QrPdfUpload(s, p, TRUE)
    \/ \E dev \in {"raspi-001", "test-device"}, p \in HttpPdfPayloads : HttpPdf(dev, p, TRUE)
    \/ \E s \in 1..ConfigSockets, q \in SingleQrPayloads : QrUpload(s, q)
    \/ \E sess \in {"raspi-001", Undefined}, f \in QrNames : UploadPhotoBegin(sess, f, SmallImage)
    \/ \E k \in 1..Len(pendingPhotos) : UploadPhotoFinish(k)

\* The Configuration store: bundle uploads on both paths, single-QR uploads and
\* photo uploads, with ConfigSockets device transports.
SpecConfig == Init /\ [][ConfigNext]_vars

\* the payloads the broadcast specification uploads
BroadcastPdf == CHOOSE p \in PdfPayloads : Len(p.qrList) = 1
\* a POST /api/pdf body without qrList
PlainPdf == CHOOSE p \in HttpPdfPayloads : ~p.hasQrList

BroadcastNext ==
    \/ Handshakes(SessionVals, {"raspi-001"})
    \/ \E s \in Sockets : QrPdfUpload(s, BroadcastPdf, TRUE)
    \/ \E dev \in {"raspi-001", "test-device"} : HttpPdf(dev, BroadcastPdf, TRUE)
    \/ \E s \in Sockets, q \in SingleQrPayloads : QrUpload(s, q)
    \/ \E f \in {"Monday_Keys.png"} : UploadPhotoBegin("raspi-001", f, SmallImage)
    \/ \E k \in 1..Len(pendingPhotos) : UploadPhotoFinish(k)

\* The registry together with the uploads that cause device-scoped broadcasts.
SpecBroadcast == Init /\ [][BroadcastNext]_vars

\* the payload the device specification reports
DeviceLocation == CHOOSE p \in LocationPayloads : p.timestamp = ClientStamp

DeviceNext ==
    \/ Handshakes({Undefined}, {"raspi-001", "test-device", Undefined})
    \/ \E s \in Sockets : LocationUpdate(s, DeviceLocation)
    \/ \E s \in Sockets : QrPdfUpload(s, BroadcastPdf, TRUE)
    \/ \E s \in Sockets, q \in SingleQrPayloads : QrUpload(s, q)

\* The registry together with every message a device transport may send.
SpecDevice == Init /\ [][DeviceNext]_vars

\* ----------------------------------------------------------------------
\* Specifications that start from a filled history
\* ----------------------------------------------------------------------
\* The state after k < MAX_HISTORY earlier location updates of raspi-001, the i-th of
\* them with longitude i, all accepted before the behaviour starts: nothing has been
\* evicted yet, so the history holds them all.
EarlierRecord(i) == LocationRecord(Num(40), Num(i), Num(5), Num(0), "raspi-001")

EarlierLog(k) == [i \in 1..k |-> EarlierRecord(i)]

InitHistory ==
    /\ conn = [s \in Sockets |-> "idle"]
    /\ session = [s \in Sockets |-> Undefined]
    /\ deviceType = [s \in Sockets |-> Undefined]
    /\ deviceId = [s \in Sockets |-> Undefined]
    /\ authenticatedDeviceId = [s \in Sockets |-> Undefined]
    /\ listeners = [s \in Sockets |-> 0]
    /\ timerPending = [s \in Sockets |-> FALSE]
    /\ connectedDevices = [d \in AUTHORIZED_DEVICES |-> NoSocket]
    /\ nAuth = 0
    /\ rejected = {}
    /\ clock = 0
    /\ \E k \in {MAX_HISTORY - 2, MAX_HISTORY - 1} :
          /\ currentLocation = EarlierRecord(k)
          /\ locationHistory = EarlierLog(k)
          /\ acceptedLog = EarlierLog(k)
    /\ nUpdates = 0
    /\ userConfigurations = [d \in AUTHORIZED_DEVICES |-> NoConfig]
    /\ pdfHistory = [d \in AUTHORIZED_DEVICES |-> <<>>]
    /\ files = {}
    /\ nextPdfId = 0
    /\ pendingPhotos = <<>>
    /\ nUploads = 0
    /\ sent = <<>>
    /\ lastOp = [op |-> "init"]
    /\ running = TRUE
    /\ destroyed = {}

HistoryNext ==
    \/ DeviceLinks(1..ConfigSockets)
    \/ Tick
    \/ \E s \in 1..ConfigSockets, p \in LocationPayloads : LocationUpdate(s, p)
    \/ \E dev \in {"raspi-002", "test-device"} : HttpLocation(DeviceLocation, dev)

\* Location updates on both paths, from an empty history and from a history that
\* earlier updates have filled to just below the cap.
SpecHistory == (Init \/ InitHistory) /\ [][HistoryNext]_vars

\* The state after k < PDF_HISTORY_LIMIT earlier POST /api/pdf uploads of "old.pdf"
\* for raspi-001, without qrList, at the k distinct earlier instants -k .. -1 (the
\* i-th at instant i - k - 1): nothing has been evicted yet, so the ledger holds
\* them all, newest first, and every backing file exists.
EarlierEntry(k, i) ==
    [filename |-> "old.pdf", uploadedAt |-> Num(i - k - 1),
     filePath |-> PdfFilePath("raspi-001", i - k - 1, "old.pdf"),
     qrCount |-> 0, fileSize |-> 7, id |-> PdfId(i - k - 1, i - 1)]

EarlierLedger(k) == [j \in 1..k |-> EarlierEntry(k, k + 1 - j)]

\* the state after the uploads that built the ledger led of raspi-001
InitLedgerOf(led) ==
    /\ conn = [s \in Sockets |-> "idle"]
    /\ session = [s \in Sockets |-> Undefined]
    /\ deviceType = [s \in Sockets |-> Undefined]
    /\ deviceId = [s \in Sockets |-> Undefined]
    /\ authenticatedDeviceId = [s \in Sockets |-> Undefined]
    /\ listeners = [s \in Sockets |-> 0]
    /\ timerPending = [s \in Sockets |-> FALSE]
    /\ connectedDevices = [d \in AUTHORIZED_DEVICES |-> NoSocket]
    /\ nAuth = 0
    /\ rejected = {}
    /\ clock = 0
    /\ currentLocation = InitialLocation
    /\ locationHistory = <<>>
    /\ acceptedLog = <<>>
    /\ nUpdates = 0
    /\ LET new == led[1]
       IN  /\ pdfHistory = [d \in AUTHORIZED_DEVICES |->
                               IF d = "raspi-001" THEN led ELSE <<>>]
           /\ files = {led[j].filePath : j \in 1..Len(led)}
           /\ nextPdfId = Len(led)
           /\ userConfigurations = [d \in AUTHORIZED_DEVICES |->
                 IF d = "raspi-001"
                 THEN [EmptyConfig EXCEPT !.qrPdf =
                          [filename |-> new.filename, filePath |-> new.filePath,
                           uploadedAt |-> new.uploadedAt, historyId |-> new.id]]
                 ELSE NoConfig]
    /\ pendingPhotos = <<>>
    /\ nUploads = 0
    /\ sent = <<>>
    /\ lastOp = [op |-> "init"]
    /\ running = TRUE
    /\ destroyed = {}

InitLedger ==
    \E k \in {PDF_HISTORY_LIMIT - 2, PDF_HISTORY_LIMIT - 1} : InitLedgerOf(EarlierLedger(k))

LedgerNext ==
    \/ DeviceLinks(1..ConfigSockets)
    \/ Tick
    \/ \E s \in 1..ConfigSockets, ok \in BOOLEAN : QrPdfUpload(s, BroadcastPdf, ok)
    \/ \E dev \in {"raspi-001", "raspi-002"}, p \in {PlainPdf, BroadcastPdf}, ok \in BOOLEAN :
          HttpPdf(dev, p, ok)

\* Bundle uploads on both paths, from empty ledgers and from a ledger that earlier
\* uploads have filled to just below the cap; deleting an evicted file may fail.
SpecLedger == (Init \/ InitLedger) /\ [][LedgerNext]_vars

\* ----------------------------------------------------------------------
\* Properties of the client handshake
\* ----------------------------------------------------------------------
\* the positions in sent of the events of that name to transport s
EventsTo(s, event) == {i \in 1..Len(sent) : sent[i].to = s /\ sent[i].event = event}

\* the step completed a client handshake on a transport with an authenticated session
ClientJoined ==
    lastOp.op = "authenticate" /\ lastOp.type = "client" /\ session[lastOp.sock] # Undefined

ClientLinks(S, Sess) ==
    \/ \E s \in S, sess \in Sess : Connect(s, sess)
    \/ \E s \in S : AuthenticateClient(s)
    \/ \E s \in S : Disconnect(s)

\* a POST /api/location body of another device
OtherLocation == CHOOSE p \in LocationPayloads : p.latitude = Str(41)

ClientNext ==
    \/ DeviceLinks(1..ConfigSockets)
    \/ ClientLinks((ConfigSockets + 1)..NumSockets, SessionIds)
    \/ \E s \in 1..ConfigSockets : LocationUpdate(s, DeviceLocation)
    \/ \E s \in 1..ConfigSockets, q \in SingleQrPayloads : QrUpload(s, q)

\* Browser clients that join while devices report locations and upload QR codes.
SpecClient == Init /\ [][ClientNext]_vars

\* ----------------------------------------------------------------------
\* Properties of the current location
\* ----------------------------------------------------------------------
\* the positions in acceptedLog of the records accepted from device d
AcceptedFrom(d) == {i \in 1..Len(acceptedLog) : acceptedLog[i].deviceId = d}

\* the last record accepted from device d (there is one)
LastAccepted(d) ==
    acceptedLog[CHOOSE i \in AcceptedFrom(d) : \A j \in AcceptedFrom(d) : j <= i]

\* C12: a client bound to device D that joins after updates of D have been accepted
\* is sent, as the current location, the last record accepted from D, whatever
\* other devices have reported since; it is never sent the record of another device
\* as the current location.
C12_CurrentPerDevice ==
    ClientJoined =>
       LET s == lastOp.sock
           D == session[lastOp.sock]
       IN  /\ \A i \in EventsTo(s, "locationUpdate") : sent[i].data.deviceId = D
           /\ AcceptedFrom(D) # {} =>
                 /\ EventsTo(s, "locationUpdate") # {}
                 /\ \A i \in EventsTo(s, "locationUpdate") : sent[i].data = LastAccepted(D)

\* the records of a sequence carry timestamps in non-decreasing order
NonDecreasing(log) ==
    \A i, j \in 1..Len(log) : i < j => log[i].timestamp.v <= log[j].timestamp.v

\* the timestamp is a reading of the server clock, not the one a payload carried
ServerStamped(rec) == rec.timestamp.k = "number" /\ rec.timestamp # ClientStamp

\* C13: the records accepted so far, in the order in which they were accepted and
\* broadcast, and the records of the history carry non-decreasing timestamps; every
\* locationUpdate event delivered in a step carries the newest timestamp assigned so
\* far; every stored or delivered record carries a reading of the server clock, also
\* when the payload supplied a timestamp of its own.
C13_ServerTimestamps ==
    /\ NonDecreasing(acceptedLog)
    /\ NonDecreasing(locationHistory)
    /\ \A i \in 1..Len(acceptedLog) : ServerStamped(acceptedLog[i])
    /\ \A i \in 1..Len(locationHistory) : ServerStamped(locationHistory[i])
    /\ acceptedLog # <<>> => ServerStamped(currentLocation)
    /\ \A i \in 1..Len(sent) :
          sent[i].event = "locationUpdate" =>
             /\ ServerStamped(sent[i].data)
             /\ acceptedLog # <<>>
             /\ sent[i].data.timestamp = acceptedLog[Len(acceptedLog)].timestamp
    /\ lastOp.op \in {"locationUpdate", "POST /api/location"} =>
          \A i \in 1..Len(acceptedLog) : acceptedLog[i].timestamp.v <= lastOp.at

\* an update whose payload carries a timestamp has been accepted at a later instant
\* than an earlier update and delivered to a connected browser client
C13_LaterUpdate ==
    /\ lastOp.op = "locationUpdate" /\ lastOp.runs >= 1
    /\ lastOp.payload.timestamp = ClientStamp
    /\ Len(acceptedLog) >= 2
    /\ acceptedLog[1].timestamp.v < acceptedLog[Len(acceptedLog)].timestamp.v
    /\ \E c \in OpenClients : \E i \in EventsTo(c, "locationUpdate") :
          sent[i].data = currentLocation

ClockNext ==
    \/ DeviceLinks(1..ConfigSockets)
    \/ ClientLinks((ConfigSockets + 1)..NumSockets, {"raspi-001"})
    \/ Tick
    \/ \E s \in 1..ConfigSockets : LocationUpdate(s, DeviceLocation)
    \/ HttpLocation(OtherLocation, "raspi-002")

\* Location updates of two devices, on both paths and at different instants, with
\* browser clients of the first device joining in between.
SpecClock == Init /\ [][ClockNext]_vars

\* ----------------------------------------------------------------------
\* Properties of the bundle upload over the WebSocket
\* ----------------------------------------------------------------------
\* the smaller of two numbers
Min(a, b) == IF a < b THEN a ELSE b

\* the effect of a qrPdfUpload message that was processed k times: k entries with
\* qrCount = n at the head of the ledger of D, n QR entries in the Configuration of
\* D, k qrPdfReceived events with totalQRs = n for every client bound to D, and k
\* acknowledgements with processedQRs = n for the uploader
BundleUploadEffect(k) ==
    LET s   == lastOp.sock
        D   == lastOp.deviceId
        n   == Len(lastOp.payload.qrList)
        old == lastOp.historyBefore[D]
        new == pdfHistory[D]
    IN  /\ Len(new) = Min(Len(old) + k, PDF_HISTORY_LIMIT)
        /\ \A i \in 1..k : new[i].qrCount = n
        /\ \A i \in (k + 1)..Len(new) : new[i] = old[i - k]
        /\ Len(userConfigurations[D].qrCodes) = n
        /\ \A c \in BoundClients(D) :
              /\ Cardinality(EventsTo(c, "qrPdfReceived")) = k
              /\ \A i \in EventsTo(c, "qrPdfReceived") : sent[i].data.pdfInfo.totalQRs = n
        /\ Cardinality(EventsTo(s, "qrPdfUploadAck")) = k
        /\ \A i \in EventsTo(s, "qrPdfUploadAck") : sent[i].data.processedQRs = n

\* C14: an accepted qrPdfUpload with a qrList of n entries from device D adds exactly
\* one entry, with qrCount = n, to the ledger of D, leaves exactly n QR entries in
\* the Configuration of D, sends every client bound to D one qrPdfReceived with
\* totalQRs = n and acknowledges the uploader once, with processedQRs = n.
C14_BundleUploadOnce ==
    (lastOp.op = "qrPdfUpload" /\ lastOp.runs >= 1) => BundleUploadEffect(1)

BundleNext ==
    \/ Handshakes({"raspi-002", Undefined}, {"raspi-001", "raspi-002"})
    \/ \E s \in Sockets, p \in PdfPayloads : QrPdfUpload(s, p, TRUE)

\* The registry with two device identities together with the bundle uploads of the
\* transports.
SpecBundle == Init /\ [][BundleNext]_vars

\* ----------------------------------------------------------------------
\* Properties of the photo upload
\* ----------------------------------------------------------------------
\* the request names no session, a device without Configuration, or a filename that
\* no QR entry of the device's Configuration carries
PhotoRequestInvalid(sess, f) ==
    \/ sess = Undefined
    \/ ~HasConfig(userConfigurations, sess)
    \/ \A i \in 1..Len(userConfigurations[sess].qrCodes) :
          userConfigurations[sess].qrCodes[i].filename # f

\* C15: a photo upload without an authenticated session is answered 401, and one for
\* a device without Configuration or for a filename that matches no QR entry of the
\* device is answered 404; such a request leaves the Configurations (photo entries
\* and hasPhoto flags) as they were, suspends no upload and emits nothing.
C15_RejectedPhotoUpload ==
    [][ (/\ lastOp'.op = "upload-photo"
         /\ ~lastOp'.done
         /\ PhotoRequestInvalid(lastOp'.session, lastOp'.qrFilename))
        => /\ lastOp'.status = IF lastOp'.session = Undefined THEN 401 ELSE 404
           /\ userConfigurations' = userConfigurations
           /\ pendingPhotos' = pendingPhotos
           /\ sent' = <<>> ]_vars

\* a photo upload for a filename that is not in the device's Configuration has been
\* rejected while the Configuration holds a photographed entry
C15_UnknownQr ==
    /\ lastOp.op = "upload-photo" /\ ~lastOp.done
    /\ lastOp.status = 404
    /\ lastOp.session # Undefined
    /\ HasConfig(userConfigurations, lastOp.session)
    /\ PhotoRequestInvalid(lastOp.session, lastOp.qrFilename)
    /\ PhotoMarked(userConfigurations, lastOp.session) # {}
    /\ pendingPhotos = <<>>

\* the most iterations the loop can make: from the target quality down to the floor
MaxReencodeSteps == (TargetQuality - MinQuality + QualityStep - 1) \div QualityStep

\* what C16 says of the loop but for the floor: the quality starts at the target
\* quality and has been lowered by the step once per iteration, an iteration is only
\* made when the size exceeded the cap, and the iterations are bounded
LoopBounded(q) ==
    /\ q.quality = TargetQuality - QualityStep * q.steps
    /\ q.steps <= MaxReencodeSteps
    /\ q.size = EncodedSize(q.image, q.quality)
    /\ q.steps > 0 => EncodedSize(q.image, q.quality + QualityStep) > MaxPhotoBytes

\* C16: the loop of a photo upload makes a bounded number of iterations, each
\* lowering the quality by the step from the target quality while the size exceeds
\* the cap; the quality never goes below the minimum quality; and a stored photo is
\* at most as large as the cap whenever encoding at the minimum quality is.
C16_QualityLoop ==
    /\ \A k \in 1..Len(pendingPhotos) :
          /\ LoopBounded(pendingPhotos[k])
          /\ pendingPhotos[k].quality >= MinQuality
    /\ (lastOp.op = "upload-photo" /\ lastOp.done) =>
          /\ LoopBounded(lastOp)
          /\ lastOp.quality >= MinQuality
          /\ EncodedSize(lastOp.image, MinQuality) <= MaxPhotoBytes =>
                lastOp.size <= MaxPhotoBytes

PhotoNext ==
    \/ DeviceLinks(1..ConfigSockets)
    \/ \E s \in 1..ConfigSockets, q \in SingleQrPayloads : QrUpload(s, q)
    \/ \E img \in Images : UploadPhotoBegin("raspi-001", "Bag.png", img)
    \/ \E k \in 1..Len(pendingPhotos) : UploadPhotoReencode(k)
    \/ \E k \in 1..Len(pendingPhotos) : UploadPhotoFinish(k)

\* Photo uploads of images of every size for the QR code of a device.
SpecPhoto == Init /\ [][PhotoNext]_vars

\* ----------------------------------------------------------------------
\* Properties of the writers of the location state
\* ----------------------------------------------------------------------
\* transport s is, in the current state, the registered device transport of its identity
RegisteredDevice(s) ==
    /\ conn[s] = "open"
    /\ deviceType[s] = "device"
    /\ deviceId[s] \in DOMAIN connectedDevices
    /\ connectedDevices[deviceId[s]] = s

\* C17: every step that changes the current location or the location history is the
\* handling of a locationUpdate message of a transport that is at that moment the
\* registered device transport of its identity.
C17_OnlyDeviceUpdates ==
    [][ (currentLocation' # currentLocation \/ locationHistory' # locationHistory)
        => /\ lastOp'.op = "locationUpdate"
           /\ RegisteredDevice(lastOp'.sock) ]_vars

\* ----------------------------------------------------------------------
\* Properties of the validation of messages
\* ----------------------------------------------------------------------
InRange(x, lo, hi) == x.k = "number" /\ lo <= x.v /\ x.v <= hi

\* a record as the data model defines it
ValidRecord(rec) ==
    /\ InRange(rec.latitude, -90, 90)
    /\ InRange(rec.longitude, -180, 180)
    /\ rec.accuracy = Null \/ (rec.accuracy.k = "number" /\ rec.accuracy.v >= 0)

\* the payload lacks a coordinate or carries one outside its range
BadCoordinates(p) ==
    \/ ~InRange(NumberIn(p.latitude), -90, 90)
    \/ ~InRange(NumberIn(p.longitude), -180, 180)

\* C18: every record of the history, and the current record once an update has been
\* accepted, has its latitude in [-90, 90], its longitude in [-180, 180] and an
\* accuracy that is null or a non-negative number; a location update with a missing
\* or out-of-range coordinate is answered with an error (locationError to the
\* sender, status 400 to the HTTP caller) and no record is made of it.
C18_ValidRecords ==
    /\ \A i \in 1..Len(locationHistory) : ValidRecord(locationHistory[i])
    /\ acceptedLog # <<>> => ValidRecord(currentLocation)
    /\ (lastOp.op = "locationUpdate" /\ lastOp.runs >= 1 /\ BadCoordinates(lastOp.payload)) =>
          /\ EventsTo(lastOp.sock, "locationError") # {}
          /\ EventsTo(lastOp.sock, "locationAck") = {}
    /\ (lastOp.op = "POST /api/location" /\ BadCoordinates(lastOp.payload)) =>
          lastOp.status = 400

ErrorEvents == {"authError", "locationError", "qrPdfUploadError", "qrUploadError"}

\* the step handled a malformed message: one whose listener throws, or a
\* locationUpdate without coordinates
HandledMalformed ==
    \/ lastOp'.op = "malformed"
    \/ /\ lastOp'.op = "locationUpdate"
       /\ lastOp'.runs >= 1
       /\ lastOp'.payload = MissingCoordinates

\* C20: the step that handles a malformed WebSocket message sends the sender a named
\* error event, leaves the registry, the location state, the Configurations and the
\* ledgers as they were, and leaves the server running.
C20_MalformedAnswered ==
    [][ HandledMalformed
        => /\ running'
           /\ \E i \in 1..Len(sent') :
                 sent'[i].to = lastOp'.sock /\ sent'[i].event \in ErrorEvents
           /\ UNCHANGED <<connectedDevices, currentLocation, locationHistory,
                          userConfigurations, pdfHistory>> ]_vars

ValidationNext ==
    \/ DeviceLinks(Sockets)
    \/ \E s \in Sockets, p \in {DeviceLocation} \cup InvalidLocationPayloads : LocationUpdate(s, p)
    \/ \E p \in InvalidLocationPayloads : HttpLocation(p, "raspi-001")
    \/ \E s \in Sockets : QrPdfUpload(s, BroadcastPdf, TRUE)
    \/ \E s \in Sockets, m \in MalformedMessages : MalformedMessage(s, m)

\* Device transports that send well-formed, invalid and malformed messages, and
\* POST /api/location requests with invalid bodies.
SpecValidation == Init /\ [][ValidationNext]_vars

\* ----------------------------------------------------------------------
\* Properties of the current-PDF pointer
\* ----------------------------------------------------------------------
\* the Configuration of device d has a current-PDF pointer
HasPointer(d) == HasConfig(userConfigurations, d) /\ userConfigurations[d].qrPdf # NoConfig

\* C19: for every device whose Configuration has a current-PDF pointer, the ledger
\* of the device is not empty and the historyId, the filename and the backing path
\* of the pointer are those of the first (newest) entry of the ledger.
C19_PointerIsNewest ==
    \A d \in DOMAIN userConfigurations :
        HasPointer(d) =>
           /\ pdfHistory[d] # <<>>
           /\ userConfigurations[d].qrPdf.historyId = pdfHistory[d][1].id
           /\ userConfigurations[d].qrPdf.filename = pdfHistory[d][1].filename
           /\ userConfigurations[d].qrPdf.filePath = pdfHistory[d][1].filePath

\* an upload into a full ledger has evicted the oldest entry and moved the pointer
\* from the entry that is now second to the new first entry
C19_PointerMoved ==
    /\ PdfAccepted
    /\ Len(lastOp.evicted) = 1
    /\ HasPointer(lastOp.deviceId)
    /\ pdfHistory[lastOp.deviceId][2] = lastOp.historyBefore[lastOp.deviceId][1]
    /\ userConfigurations[lastOp.deviceId].qrPdf.historyId = pdfHistory[lastOp.deviceId][1].id
    /\ userConfigurations[lastOp.deviceId].qrPdf.historyId # pdfHistory[lastOp.deviceId][2].id

\* ----------------------------------------------------------------------
\* locationUpdate on a transport that is not an authenticated device
\* ----------------------------------------------------------------------
\* C21: a locationUpdate message received on a transport whose role is not device
\* (unidentified or client) is answered with locationError to that sender only,
\* and the current location and the history are unchanged.
C21_NonDeviceRejected ==
    [][(lastOp'.op = "locationUpdate" /\ lastOp'.wasType # "device") =>
          /\ sent' = <<Msg(lastOp'.sock, "locationError", NoData)>>
          /\ UNCHANGED <<currentLocation, locationHistory>>]_vars

\* the part of C21 that holds for a transport that never was a device: nothing is
\* stored and no other transport receives anything
C21_NonDeviceIgnored ==
    [][(lastOp'.op = "locationUpdate" /\ lastOp'.runs = 0) =>
          /\ sent' = <<>>
          /\ UNCHANGED <<currentLocation, locationHistory>>]_vars

\* ----------------------------------------------------------------------
\* GET /api/download-pdf-history/:historyId
\* ----------------------------------------------------------------------
\* variant: the entry is looked up in the ledgers of all devices
HistoryOfAnyDevice(hists, dev) ==
    hists["raspi-001"] \o hists["raspi-002"]

\* const history = pdfHistory.get(deviceId) || []
HistoryOf(hists, dev) ==
    IF dev \in DOMAIN hists THEN hists[dev] ELSE <<>>

\* history.find(entry => entry.id === historyId): the position of the first entry
\* with that id, 0 when there is none
FindEntry(hist, id) ==
    LET I == {i \in 1..Len(hist) : hist[i].id = id}
    IN  IF I = {} THEN 0 ELSE CHOOSE i \in I : \A j \in I : i <= j

NoFile == [none |-> TRUE]

\* 401 without an authenticated session, 404 when the id is not in the ledger of
\* the session's device or the file is gone, otherwise the file is sent
DownloadResponse(sess, id) ==
    IF sess = Undefined THEN [status |-> 401, file |-> NoFile]
    ELSE LET hist == HistoryOf(pdfHistory, sess)
             i    == FindEntry(hist, id)
         IN  IF i = 0 THEN [status |-> 404, file |-> NoFile]
             ELSE IF hist[i].filePath \in files
                  THEN [status |-> 200, file |-> hist[i].filePath]
                  ELSE [status |-> 404, file |-> NoFile]

DownloadPdfHistory(sess, id) ==
    /\ running
    /\ SessionLive(sess)
    /\ LET r == DownloadResponse(sess, id)
       IN  lastOp' = [op |-> "GET /api/download-pdf-history", session |-> sess,
                      historyId |-> id, status |-> r.status, file |-> r.file]
    /\ sent' = <<>>
    /\ UNCHANGED <<regVars, clock, locVars, cfgVars, pdfVars, nUploads>>
    /\ UNCHANGED <<running, destroyed>>

\* a ledger of k entries whose two oldest entries were uploaded with the same
\* filename within the same millisecond and so share one backing path
TwinLedger(k) ==
    [j \in 1..k |-> IF j = k - 1
                    THEN [EarlierEntry(k, 1) EXCEPT !.id = PdfId(0 - k, 1)]
                    ELSE EarlierLedger(k)[j]]

InitTwins == InitLedgerOf(TwinLedger(PDF_HISTORY_LIMIT - 1))

\* the ids of all entries that are in a ledger now
LedgerIds ==
    UNION { {pdfHistory[d][i].id : i \in 1..Len(pdfHistory[d])} : d \in DOMAIN pdfHistory }

\* the ids a caller asks for: the newest and the oldest entries of the ledgers, the
\* oldest entries of the earlier ledgers (evicted by later uploads) and an id that
\* was never given out
DownloadIds ==
    {id \in LedgerIds : \E d \in {"raspi-001", "raspi-002"} :
        \E i \in {1, Len(pdfHistory[d]) - 1, Len(pdfHistory[d])} :
            i \in 1..Len(pdfHistory[d]) /\ pdfHistory[d][i].id = id}
      \cup {PdfId(0 - k, 0) : k \in {PDF_HISTORY_LIMIT - 2, PDF_HISTORY_LIMIT - 1}}
      \cup {PdfId(0, 0 - 1)}

DownloadNext ==
    \/ \E dev \in {"raspi-001", "raspi-002"}, ok \in BOOLEAN : HttpPdf(dev, PlainPdf, ok)
    \/ \E sess \in SessionVals \cup {"test-device"}, id \in DownloadIds :
          DownloadPdfHistory(sess, id)

\* HTTP bundle uploads for two devices and downloads from the ledgers, by callers
\* with and without a session.
SpecDownload == (Init \/ InitLedger \/ InitTwins) /\ [][DownloadNext]_vars

\* the entries of the ledger of the session's device that carry the requested id
OwnEntries ==
    IF lastOp.session \in DOMAIN pdfHistory
    THEN {i \in 1..Len(pdfHistory[lastOp.session]) :
             pdfHistory[lastOp.session][i].id = lastOp.historyId}
    ELSE {}

\* C22: a download request is answered 401 exactly when the caller has no
\* authenticated session; it is answered with a PDF exactly when the session is
\* authenticated, the id is the id of an entry now in the ledger of the session's own
\* device and the backing file of that entry exists, and the file sent is the backing
\* file of that entry; every other request (id of another device's ledger, evicted id,
\* unknown id, missing file) is answered 404.
C22_DownloadOwnLedger ==
    lastOp.op = "GET /api/download-pdf-history" =>
        /\ lastOp.status \in {200, 401, 404}
        /\ lastOp.status = 401 <=> lastOp.session = Undefined
        /\ lastOp.status = 200 <=>
              /\ lastOp.session # Undefined
              /\ \E i \in OwnEntries : pdfHistory[lastOp.session][i].filePath \in files
        /\ lastOp.status = 200 =>
              \E i \in OwnEntries : pdfHistory[lastOp.session][i].filePath = lastOp.file

\* an authenticated caller asked for an entry of another device's ledger whose file
\* exists, and got 404
C22_OtherDevice ==
    /\ lastOp.op = "GET /api/download-pdf-history"
    /\ lastOp.status = 404
    /\ lastOp.session \in DOMAIN pdfHistory
    /\ \E d \in DOMAIN pdfHistory \ {lastOp.session} :
          \E i \in 1..Len(pdfHistory[d]) :
              /\ pdfHistory[d][i].id = lastOp.historyId
              /\ pdfHistory[d][i].filePath \in files

\* ----------------------------------------------------------------------
\* POST /api/logout
\* ----------------------------------------------------------------------
\* req.session.destroy(): the session leaves the store; the objects that sockets
\* took from the store when they connected are not touched
Logout(sess) ==
    /\ running
    /\ SessionLive(sess)
    /\ destroyed' = IF sess = Undefined THEN destroyed ELSE destroyed \cup {sess}
    /\ sent' = <<>>
    /\ lastOp' = [op |-> "POST /api/logout", session |-> sess, status |-> 200]
    /\ UNCHANGED <<regVars, clock, locVars, cfgVars, pdfVars, nUploads, running>>

SessionNext ==
    \/ DeviceLinks(1..ConfigSockets)
    \/ ClientLinks((ConfigSockets + 1)..NumSockets, SessionIds)
    \/ \E sess \in SessionVals : Logout(sess)
    \/ \E s \in 1..ConfigSockets, q \in SingleQrPayloads : QrUpload(s, q)

\* Browser clients whose sessions are logged out while a device uploads QR codes.
SpecSession == Init /\ [][SessionNext]_vars

\* transport s is a connected client bound to device d
BoundTo(s, d) == conn[s] = "open" /\ deviceType[s] = "client" /\ authenticatedDeviceId[s] = d

PhotoMessages(s, photos) ==
    SeqMap(LAMBDA photo : Msg(s, "photoData",
                              [filename |-> photo.filename, originalQR |-> photo.qrFilename]),
           photos)

\* one run of the requestPhotos listener of socket s: nothing happens unless the
\* sender is an authorized device that has a Configuration
RequestPhotosListener(cfgs, s) ==
    IF SenderAuthorized(s) /\ HasConfig(cfgs, deviceId[s])
    THEN LET photosToSend == SelectSeq(cfgs[deviceId[s]].itemImages,
                                       LAMBDA img : img.compressed)
         IN  PhotoMessages(s, photosToSend)
             \o <<Msg(s, "photoTransferComplete", [count |-> Len(photosToSend)])>>
    ELSE <<>>

\* the event is dispatched to every listener registered for it
RECURSIVE RunRequestPhotosListeners(_, _, _)
RunRequestPhotosListeners(n, cfgs, s) ==
    IF n = 0 THEN <<>>
    ELSE RunRequestPhotosListeners(n - 1, cfgs, s) \o RequestPhotosListener(cfgs, s)

RequestPhotos(s) ==
    /\ running
    /\ conn[s] = "open"
    /\ sent' = RunRequestPhotosListeners(listeners[s], userConfigurations, s)
    /\ lastOp' = [op |-> "requestPhotos", sock |-> s, runs |-> listeners[s],
                  wasType |-> deviceType[s], deviceId |-> deviceId[s]]
    /\ UNCHANGED <<regVars, clock, locVars, cfgVars, pdfVars, nUploads>>
    /\ UNCHANGED <<running, destroyed>>

RequestNext ==
    \/ DeviceLinks(1..ConfigSockets)
    \/ \E s \in 1..ConfigSockets, q \in SingleQrPayloads : QrUpload(s, q)
    \/ \E p \in {PlainPdf, BroadcastPdf} : HttpPdf("raspi-001", p, TRUE)
    \/ UploadPhotoBegin("raspi-001", "Bag.png", SmallImage)
    \/ \E k \in 1..Len(pendingPhotos) : UploadPhotoFinish(k)
    \/ \E s \in 1..ConfigSockets : RequestPhotos(s)

\* A device that uploads QR codes and bundles and asks for the photos taken for them.
SpecRequest == Init /\ [][RequestNext]_vars

\* the PhotoEntries stored for device d (none without a Configuration)
PhotosOf(d) ==
    IF HasConfig(userConfigurations, d) THEN userConfigurations[d].itemImages ELSE <<>>

\* the answer C24 describes: one photoData per PhotoEntry of the device, then one
\* photoTransferComplete with their number
PhotoAnswer(s, d) ==
    PhotoMessages(s, PhotosOf(d)) \o <<Msg(s, "photoTransferComplete", [count |-> Len(PhotosOf(d))])>>

\* C24: a requestPhotos message from a transport with the device role is answered on
\* that transport with one photoData per PhotoEntry of the device followed by exactly
\* one photoTransferComplete with their number, also when the device has no
\* Configuration or no photos (count 0).
C24_PhotosAnswered ==
    (lastOp.op = "requestPhotos" /\ lastOp.wasType = "device") =>
        sent = PhotoAnswer(lastOp.sock, lastOp.deviceId)

\* the part of C24 that holds: a device with a Configuration whose listener is
\* registered once gets the answer
C24_AnsweredWithConfiguration ==
    (lastOp.op = "requestPhotos" /\ lastOp.wasType = "device" /\ lastOp.runs = 1
       /\ HasConfig(userConfigurations, lastOp.deviceId)) =>
        sent = PhotoAnswer(lastOp.sock, lastOp.deviceId)

\* ----------------------------------------------------------------------
\* Status codes of POST /api/location
\* ----------------------------------------------------------------------
\* a request body for a position on the equator
EquatorLocation ==
    [latitude |-> Num(0), longitude |-> Num(-74), accuracy |-> Num(5), timestamp |-> Undef]

\* a request body for a position on the prime meridian
MeridianLocation ==
    [latitude |-> Num(51), longitude |-> Num(0), accuracy |-> Num(5), timestamp |-> Undef]

HttpLocationNext ==
    \/ Tick
    \/ \E p \in LocationPayloads \cup {MissingCoordinates, EquatorLocation, MeridianLocation},
          dev \in {"raspi-001", "test-device", Undefined} : HttpLocation(p, dev)

\* POST /api/location requests with complete and incomplete bodies, for authorized,
\* unauthorized and missing device identities.
SpecHttpLocation == Init /\ [][HttpLocationNext]_vars

\* latitude, longitude or deviceId is missing from the request of the last step
FieldMissing ==
    \/ lastOp.payload.latitude = Undef
    \/ lastOp.payload.longitude = Undef
    \/ lastOp.deviceId = Undefined

\* C25: POST /api/location answers 400 exactly when latitude, longitude or deviceId
\* is missing, 403 exactly when no field is missing and the deviceId is not an
\* authorized device, and otherwise answers 200 and records the location; latitude 0
\* or longitude 0 is not a missing field.
C25_LocationStatus ==
    lastOp.op = "POST /api/location" =>
        /\ lastOp.status = 400 <=> FieldMissing
        /\ lastOp.status = 403 <=> (~FieldMissing /\ lastOp.deviceId \notin AUTHORIZED_DEVICES)
        /\ (~FieldMissing /\ lastOp.deviceId \in AUTHORIZED_DEVICES) =>
              /\ lastOp.status = 200
              /\ currentLocation.latitude = ParseFloat(lastOp.payload.latitude)
              /\ currentLocation.deviceId = lastOp.deviceId

\* the part of C25 that holds: the same for requests whose coordinates are not 0
C25_NonZeroStatus ==
    (lastOp.op = "POST /api/location"
       /\ lastOp.payload.latitude # Num(0) /\ lastOp.payload.longitude # Num(0)) =>
        /\ lastOp.status = 400 <=> FieldMissing
        /\ lastOp.status = 403 <=> (~FieldMissing /\ lastOp.deviceId \notin AUTHORIZED_DEVICES)
        /\ (~FieldMissing /\ lastOp.deviceId \in AUTHORIZED_DEVICES) =>
              /\ lastOp.status = 200
              /\ currentLocation.latitude = ParseFloat(lastOp.payload.latitude)
              /\ currentLocation.deviceId = lastOp.deviceId

\* ----------------------------------------------------------------------
\* Effect of a legacy qrUpload
\* ----------------------------------------------------------------------
SingleQrNext ==
    \/ Handshakes({"raspi-002", Undefined}, {"raspi-001", "raspi-002"})
    \/ \E s \in Sockets, q \in SingleQrPayloads : QrUpload(s, q)

\* The registry with two device identities together with the single-QR uploads of
\* the transports.
SpecSingleQr == Init /\ [][SingleQrNext]_vars

\* the effect of a step that processed a qrUpload message k times: k entries with
\* hasPhoto = false after the earlier QR entries of D, which are unchanged; photos,
\* pointer, the Configurations of other devices and the ledgers unchanged; k
\* qrCodeReceived events with the entry for every client bound to D and for nobody
\* else; k acknowledgements for the uploader
QrUploadEffect(k) ==
    LET s   == lastOp'.sock
        D   == lastOp'.deviceId
        old == ConfigOrNew(userConfigurations, D)
        new == userConfigurations'[D]
    IN  /\ Len(new.qrCodes) = Len(old.qrCodes) + k
        /\ SubSeq(new.qrCodes, 1, Len(old.qrCodes)) = old.qrCodes
        /\ \A i \in (Len(old.qrCodes) + 1)..Len(new.qrCodes) :
              /\ new.qrCodes[i].filename = lastOp'.payload.filename
              /\ ~new.qrCodes[i].hasPhoto
        /\ new.itemImages = old.itemImages
        /\ new.qrPdf = old.qrPdf
        /\ \A d \in DOMAIN userConfigurations \ {D} :
              userConfigurations'[d] = userConfigurations[d]
        /\ UNCHANGED pdfVars
        /\ \A c \in Sockets :
              Cardinality({i \in 1..Len(sent') :
                              sent'[i].to = c /\ sent'[i].event = "qrCodeReceived"})
                 = IF c \in BoundClients(D) THEN k ELSE 0
        /\ \A i \in 1..Len(sent') :
              sent'[i].event = "qrCodeReceived" =>
                 sent'[i].data = new.qrCodes[Len(new.qrCodes)]
        /\ Cardinality({i \in 1..Len(sent') :
                           sent'[i].to = s /\ sent'[i].event = "qrUploadAck"}) = k

\* C26: an accepted qrUpload for device D appends exactly one QREntry with hasPhoto =
\* false to the end of D's QREntries; the earlier entries and their flags, D's
\* PhotoEntries, the ledgers and D's current-PDF pointer are unchanged; exactly the
\* clients bound to D are sent one qrCodeReceived with that entry, and the device is
\* acknowledged once.
C26_SingleQrAppended ==
    [][(lastOp'.op = "qrUpload" /\ lastOp'.runs >= 1) => QrUploadEffect(1)]_vars

\* the same, with one entry, one event and one acknowledgement per listener that the
\* socket has registered
C26_AppendedPerListener ==
    [][(lastOp'.op = "qrUpload" /\ lastOp'.runs >= 1) => QrUploadEffect(lastOp'.runs)]_vars

\* ----------------------------------------------------------------------
\* Photo uploads that overlap a bundle upload
\* ----------------------------------------------------------------------
\* the filenames of the QR entries of device d
QrFilenamesOf(d) ==
    {userConfigurations[d].qrCodes[i].filename : i \in 1..Len(userConfigurations[d].qrCodes)}

\* C27: when a photo upload for (D, q) reports success after a bundle upload for D
\* replaced D's QR entries during its re-encoding, D's Configuration contains a QR
\* entry with filename q whose hasPhoto is true, and the qrFilename of the stored
\* PhotoEntry is the filename of one of D's QR entries.
C27_PhotoUploadAtomic ==
    (lastOp.op = "upload-photo" /\ lastOp.done /\ lastOp.orphan) =>
        /\ lastOp.qrFilename \in PhotoMarked(userConfigurations, lastOp.session)
        /\ lastOp.qrFilename \in QrFilenamesOf(lastOp.session)

\* the part of C27 that holds: a photo upload that no bundle upload overlapped
\* leaves the QR entry marked
C27_UndisturbedUpload ==
    (lastOp.op = "upload-photo" /\ lastOp.done /\ ~lastOp.orphan) =>
        lastOp.qrFilename \in PhotoMarked(userConfigurations, lastOp.session)

\* ----------------------------------------------------------------------
\* Further handshakes on an identified transport
\* ----------------------------------------------------------------------
\* C28: once a transport has a role, no step changes its role, its device identity
\* or its bound identity, and no step registers it under a device identity it was
\* not registered under before.
C28_IdentifiedOnce ==
    [][\A s \in Sockets :
          deviceType[s] # Undefined =>
             /\ deviceType'[s] = deviceType[s]
             /\ deviceId'[s] = deviceId[s]
             /\ authenticatedDeviceId'[s] = authenticatedDeviceId[s]
             /\ \A d \in DOMAIN connectedDevices :
                   connectedDevices'[d] = s => connectedDevices[d] = s]_vars

\* ----------------------------------------------------------------------
\* Entries of the device registry
\* ----------------------------------------------------------------------
\* C29: every entry deviceId -> transport of the device registry refers to a
\* transport that is connected, has the device role and whose deviceId is the key.
C29_RegistryEntriesLive ==
    \A d \in DOMAIN connectedDevices :
        connectedDevices[d] # NoSocket =>
           /\ conn[connectedDevices[d]] = "open"
           /\ deviceType[connectedDevices[d]] = "device"
           /\ deviceId[connectedDevices[d]] = d

\* ----------------------------------------------------------------------
\* Messages of a transport that sent several authenticate messages
\* ----------------------------------------------------------------------
OnceNext ==
    \/ Handshakes({Undefined}, {"raspi-001", "raspi-002"})
    \/ \E s \in Sockets : LocationUpdate(s, DeviceLocation)
    \/ \E s \in Sockets : QrPdfUpload(s, BroadcastPdf, TRUE)

\* The registry with two device identities together with the location updates and
\* bundle uploads of the transports.
SpecOnce == Init /\ [][OnceNext]_vars

\* the number of messages with that event that the step sent to transport s
SentInStep(s, event) ==
    Cardinality({i \in 1..Len(sent') : sent'[i].to = s /\ sent'[i].event = event})

\* the step handled a locationUpdate message k times: k records appended to the
\* history, k locationUpdate broadcasts to every connected transport, k locationAck
LocationProcessed(k) ==
    /\ Len(acceptedLog') = Len(acceptedLog) + k
    /\ Len(locationHistory') = Min(Len(locationHistory) + k, MAX_HISTORY)
    /\ \A t \in Sockets : conn[t] = "open" => SentInStep(t, "locationUpdate") = k
    /\ SentInStep(lastOp'.sock, "locationAck") = k

\* the step handled a qrPdfUpload message k times: k entries added to the ledger of
\* the device, k qrPdfUploadAck
BundleProcessed(k) ==
    /\ Len(pdfHistory'[lastOp'.deviceId])
          = Min(Len(pdfHistory[lastOp'.deviceId]) + k, PDF_HISTORY_LIMIT)
    /\ nextPdfId' = nextPdfId + k
    /\ SentInStep(lastOp'.sock, "qrPdfUploadAck") = k

\* C30: a locationUpdate message from a transport with the device role appends
\* exactly one record to the history and causes exactly one locationUpdate broadcast
\* and exactly one locationAck, and a qrPdfUpload message from such a transport adds
\* exactly one ledger entry and yields exactly one qrPdfUploadAck, however many
\* authenticate messages the transport sent before.
C30_ProcessedOnce ==
    [][/\ (lastOp'.op = "locationUpdate" /\ deviceType[lastOp'.sock] = "device") =>
             LocationProcessed(1)
       /\ (lastOp'.op = "qrPdfUpload" /\ deviceType[lastOp'.sock] = "device") =>
             BundleProcessed(1)]_vars

\* what holds instead: a message is processed once per successful device handshake
\* that the transport completed
C30_ProcessedPerHandshake ==
    [][/\ (lastOp'.op = "locationUpdate" /\ deviceType[lastOp'.sock] = "device") =>
             LocationProcessed(listeners[lastOp'.sock])
       /\ (lastOp'.op = "qrPdfUpload" /\ deviceType[lastOp'.sock] = "device") =>
             BundleProcessed(listeners[lastOp'.sock])]_vars

\* ----------------------------------------------------------------------
\* Registration of a transport that replaced another
\* ----------------------------------------------------------------------
\* C31: a successful device handshake for identity D leaves the registry mapping D to
\* the new transport, whatever transport was registered before, and the registry
\* keeps mapping an identity to a connected transport in every step that leaves
\* that transport connected: no close of another transport removes it.
C31_ReplacementKept ==
    [][/\ (lastOp'.op = "authenticate" /\ lastOp'.type = "device" /\ lastOp'.ok) =>
             connectedDevices'[lastOp'.deviceId] = lastOp'.sock
       /\ \A d \in DOMAIN connectedDevices, s \in Sockets :
             (connectedDevices[d] = s /\ conn[s] = "open" /\ conn'[s] = "open") =>
                connectedDevices'[d] = s]_vars

\* a handshake has replaced a connected device transport: the close of the old
\* transport was announced without the identity, and the identity is registered
\* for the new transport
C31_OldClosedNewRegistered ==
    /\ IsDeviceHandshake /\ lastOp.ok
    /\ LET old == lastOp.regBefore[lastOp.deviceId]
       IN  /\ old # NoSocket /\ old # lastOp.sock
           /\ lastOp.connBefore[old] = "open"
           /\ deviceType[old] = "device" /\ deviceId[old] = lastOp.deviceId
    /\ \E i \in 1..Len(sent) :
          /\ sent[i].event = "deviceStatus"
          /\ lastOp.deviceId \notin sent[i].data.connectedDevices
    /\ connectedDevices[lastOp.deviceId] = lastOp.sock
    /\ conn[lastOp.sock] = "open"

\* ----------------------------------------------------------------------
\* The two paths of a bundle upload
\* ----------------------------------------------------------------------
\* the WebSocket listener and the HTTP handler, run on the present state for the same
\* device and the same bundle, leave the same Configurations, ledgers and files
PathsAgreeOn(s, p, unlinkOk) ==
    LET ws   == QrPdfListener(UploadState, s, p, unlinkOk)
        http == HttpPdfHandler(UploadState, deviceId[s], p, unlinkOk)
    IN  /\ ws.cfgs = http.cfgs
        /\ ws.hist = http.hist
        /\ ws.files = http.files
        /\ ws.nextId = http.nextId

PathsAgree ==
    \A s \in Sockets, p \in PdfPayloads, unlinkOk \in BOOLEAN :
        (conn[s] = "open" /\ listeners[s] >= 1 /\ SenderAuthorized(s)) =>
           PathsAgreeOn(s, p, unlinkOk)

\* the processedQRs that the last upload reported to the uploader
ReportedQRs ==
    IF lastOp.op = "POST /api/pdf" THEN {lastOp.processedQRs}
    ELSE {sent[i].data.processedQRs : i \in EventsTo(lastOp.sock, "qrPdfUploadAck")}

\* the last upload left the QR entries of the uploaded list, recorded its size as
\* qrCount of the new ledger entry and reported its size
ListProcessed ==
    LET qrs  == userConfigurations[lastOp.deviceId].qrCodes
        list == lastOp.payload.qrList
    IN  /\ Len(qrs) = Len(list)
        /\ \A i \in 1..Len(list) : qrs[i].filename = list[i].filename
        /\ pdfHistory[lastOp.deviceId][1].qrCount = Len(list)
        /\ ReportedQRs = {Len(list)}

\* C32: for the same device and the same bundle the WebSocket path and the HTTP path
\* leave the same ledger, QR entries and current-PDF pointer, and every accepted
\* upload on either path replaces the QR entries with the uploaded list, records
\* qrCount equal to the size of the list and reports processedQRs equal to it (0
\* when no list is sent).
C32_PathsEquivalent ==
    /\ PathsAgree
    /\ PdfAccepted => ListProcessed

\* the part of C32 that holds: the paths agree on every bundle that carries a list,
\* and an accepted upload that carries a list is processed as described
C32_EquivalentWithList ==
    /\ PathsAgree
    /\ (PdfAccepted /\ lastOp.payload.hasQrList) => ListProcessed

\* ----------------------------------------------------------------------
\* Backing paths of the ledger entries
\* ----------------------------------------------------------------------
\* the positions of all ledger entries
LedgerPositions ==
    {x \in (DOMAIN pdfHistory) \X (1..PDF_HISTORY_LIMIT) : x[2] <= Len(pdfHistory[x[1]])}

EntryAt(x) == pdfHistory[x[1]][x[2]]

\* C33: no two entries of the PDF ledgers share a backing path, also when they were
\* uploaded with the same filename for the same device at the same clock reading.
C33_DistinctPaths ==
    \A x, y \in LedgerPositions : x # y => EntryAt(x).filePath # EntryAt(y).filePath

\* the part of C33 that holds: entries that share a backing path belong to the same
\* device and were uploaded with the same filename at the same clock reading
C33_SharedOnlyWithinTick ==
    \A x, y \in LedgerPositions :
        EntryAt(x).filePath = EntryAt(y).filePath =>
           /\ x[1] = y[1]
           /\ EntryAt(x).filename = EntryAt(y).filename
           /\ EntryAt(x).uploadedAt = EntryAt(y).uploadedAt

\* ----------------------------------------------------------------------
\* Filenames of the QR entries
\* ----------------------------------------------------------------------
\* C34: the QR entries of the Configuration of one device have pairwise distinct
\* filenames.
C34_DistinctFilenames ==
    \A d \in DOMAIN userConfigurations :
        HasConfig(userConfigurations, d) =>
           \A i, j \in 1..Len(userConfigurations[d].qrCodes) :
               i # j => userConfigurations[d].qrCodes[i].filename
                           # userConfigurations[d].qrCodes[j].filename

\* the part of C34 that holds: after a bundle upload whose list names every file
\* once the filenames are distinct
C34_DistinctAfterBundle ==
    BundleAccepted =>
        \A i, j \in 1..Len(userConfigurations[lastOp.deviceId].qrCodes) :
            i # j => userConfigurations[lastOp.deviceId].qrCodes[i].filename
                        # userConfigurations[lastOp.deviceId].qrCodes[j].filename

\* ----------------------------------------------------------------------
\* Eviction whose file cannot be deleted
\* ----------------------------------------------------------------------
\* the last upload was acknowledged as successful
UploadAcknowledged ==
    IF lastOp.op = "POST /api/pdf" THEN lastOp.status = 200
    ELSE \E i \in EventsTo(lastOp.sock, "qrPdfUploadAck") : sent[i].data.success

\* C35: when deleting the backing file of the evicted entry fails, the new entry is
\* still at the head of the ledger, the ledger still holds exactly 50 entries, the
\* evicted entry is out of the ledger, the current-PDF pointer names the new entry,
\* the uploaded list has replaced the QR entries, and the upload is acknowledged as
\* successful.
C35_UnlinkFailureSwallowed ==
    (PdfAccepted /\ lastOp.unlinkFailed) =>
        LET D   == lastOp.deviceId
            new == pdfHistory[D]
        IN  /\ Len(new) = PDF_HISTORY_LIMIT
            /\ new[1].filename = lastOp.payload.filename
            /\ new[1].uploadedAt = Num(lastOp.at)
            /\ new[1] \notin {lastOp.historyBefore[D][i] : i \in 1..Len(lastOp.historyBefore[D])}
            /\ \A i \in 1..Len(lastOp.evicted) :
                  lastOp.evicted[i] \notin {new[j] : j \in 1..Len(new)}
            /\ userConfigurations[D].qrPdf.historyId = new[1].id
            /\ userConfigurations[D].qrPdf.filePath = new[1].filePath
            /\ lastOp.payload.hasQrList =>
                  Len(userConfigurations[D].qrCodes) = Len(lastOp.payload.qrList)
            /\ UploadAcknowledged

\* an upload into a full ledger whose eviction could not delete the file: the file
\* of the evicted entry is still on storage
C35_FileLeftBehind ==
    /\ PdfAccepted
    /\ lastOp.unlinkFailed
    /\ Len(lastOp.historyBefore[lastOp.deviceId]) = PDF_HISTORY_LIMIT
    /\ Len(lastOp.evicted) = 1
    /\ lastOp.evicted[1].filePath \in files

\* ----------------------------------------------------------------------
\* Read requests: /api/pdf-history, /api/user-config, /debug/server-state
\* ----------------------------------------------------------------------
Unauthenticated == [status |-> 401]

\* history.map(entry => ({ id, filename, uploadedAt, qrCount, fileSize }))
SanitizedEntry(entry) ==
    [id |-> entry.id, filename |-> entry.filename, uploadedAt |-> entry.uploadedAt,
     qrCount |-> entry.qrCount, fileSize |-> entry.fileSize]

\* GET /api/pdf-history, answered from the ledgers hists
PdfHistoryResponse(sess, hists) ==
    IF sess = Undefined THEN Unauthenticated
    ELSE LET history == SeqMap(SanitizedEntry, HistoryOf(hists, sess))
         IN  [status |-> 200, deviceId |-> sess, history |-> history,
              totalCount |-> Len(history)]

\* the metadata of a QR entry, of a photo and of the pointer in /api/user-config
SanitizedQr(qr) ==
    [filename |-> qr.filename, label |-> qr.label, uploadedAt |-> qr.uploadedAt,
     hasPhoto |-> qr.hasPhoto]
SanitizedImage(img) ==
    [filename |-> img.filename, qrFilename |-> img.qrFilename,
     uploadedAt |-> img.uploadedAt, size |-> img.size]
SanitizedPointer(qrPdf) ==
    IF qrPdf = NoConfig THEN NoConfig
    ELSE [filename |-> qrPdf.filename, uploadedAt |-> qrPdf.uploadedAt]

\* GET /api/user-config, answered from the Configurations cfgs
UserConfigResponse(sess, cfgs) ==
    IF sess = Undefined THEN Unauthenticated
    ELSE IF ~HasConfig(cfgs, sess)
    THEN [status |-> 200, qrCodes |-> <<>>, itemImages |-> <<>>]
    ELSE [status |-> 200,
          qrCodes |-> SeqMap(SanitizedQr, cfgs[sess].qrCodes),
          itemImages |-> SeqMap(SanitizedImage, cfgs[sess].itemImages),
          qrPdf |-> SanitizedPointer(cfgs[sess].qrPdf)]

\* GET /debug/server-state: Array.from(userConfigurations.entries()),
\* Array.from(pdfHistory.entries()), Array.from(connectedDevices.keys()); no check
\* of the session
ServerStateResponse(sess, cfgs, hists) ==
    [status |-> 200,
     userConfigurations |-> [d \in {e \in DOMAIN cfgs : HasConfig(cfgs, e)} |-> cfgs[d]],
     pdfHistory |-> [d \in {e \in DOMAIN hists : hists[e] # <<>>} |-> hists[d]],
     connectedDevices |-> RegistryKeys(connectedDevices),
     sessionDeviceId |-> IF sess = Undefined THEN "unknown" ELSE sess,
     authenticated |-> sess # Undefined]

ReadRequests == {"GET /api/pdf-history", "GET /api/user-config", "GET /debug/server-state"}

\* the response to read request op of a caller with session sess, computed from the
\* Configurations cfgs and the ledgers hists
ReadResponse(op, sess, cfgs, hists) ==
    CASE op = "GET /api/pdf-history"    -> PdfHistoryResponse(sess, hists)
      [] op = "GET /api/user-config"    -> UserConfigResponse(sess, cfgs)
      [] op = "GET /debug/server-state" -> ServerStateResponse(sess, cfgs, hists)

ReadRequest(op, sess) ==
    /\ running
    /\ SessionLive(sess)
    /\ lastOp' = [op |-> op, session |-> sess,
                  response |-> ReadResponse(op, sess, userConfigurations, pdfHistory)]
    /\ sent' = <<>>
    /\ UNCHANGED <<regVars, clock, locVars, cfgVars, pdfVars, nUploads>>
    /\ UNCHANGED <<running, destroyed>>

DisclosureNext ==
    \/ \E dev \in {"raspi-001", "raspi-002"}, p \in {PlainPdf, BroadcastPdf} :
          HttpPdf(dev, p, TRUE)
    \/ \E op \in ReadRequests, sess \in SessionVals : ReadRequest(op, sess)

\* Bundle uploads for two devices and read requests of callers with a session of
\* either device or without a session.
SpecDisclosure == Init /\ [][DisclosureNext]_vars

\* the Configurations and the ledgers with everything deleted that does not belong
\* to the device of session sess
OwnConfigurations(sess) ==
    [d \in DOMAIN userConfigurations |-> IF d = sess THEN userConfigurations[d] ELSE NoConfig]
OwnLedgers(sess) ==
    [d \in DOMAIN pdfHistory |-> IF d = sess THEN pdfHistory[d] ELSE <<>>]

\* C36: the response to a read request of a caller without a session or with a
\* session bound to device D is the response the same request gets in the state in
\* which the other devices have no Configuration and no ledger, so it reveals
\* nothing of them.
C36_NothingOfOthers ==
    lastOp.op \in ReadRequests =>
        lastOp.response = ReadResponse(lastOp.op, lastOp.session,
                                       OwnConfigurations(lastOp.session),
                                       OwnLedgers(lastOp.session))

\* the part of C36 that holds: the same for /api/pdf-history and /api/user-config,
\* and the entries of /api/pdf-history carry no backing path
C36_SanitizedResponses ==
    lastOp.op \in ReadRequests \ {"GET /debug/server-state"} =>
        /\ lastOp.response = ReadResponse(lastOp.op, lastOp.session,
                                          OwnConfigurations(lastOp.session),
                                          OwnLedgers(lastOp.session))
        /\ (lastOp.op = "GET /api/pdf-history" /\ lastOp.response.status = 200) =>
              \A i \in 1..Len(lastOp.response.history) :
                  "filePath" \notin DOMAIN lastOp.response.history[i]

\* ----------------------------------------------------------------------
\* The hasPhoto flag and the stored photos
\* ----------------------------------------------------------------------
QrCodesOf(cfgs, d) == IF HasConfig(cfgs, d) THEN cfgs[d].qrCodes ELSE <<>>
ItemImagesOf(cfgs, d) == IF HasConfig(cfgs, d) THEN cfgs[d].itemImages ELSE <<>>

\* every QR entry marked as photographed has a photo of its filename in the same
\* Configuration
HasPhotoBacked ==
    \A d \in DOMAIN userConfigurations :
        \A i \in 1..Len(QrCodesOf(userConfigurations, d)) :
            QrCodesOf(userConfigurations, d)[i].hasPhoto =>
                \E j \in 1..Len(ItemImagesOf(userConfigurations, d)) :
                    ItemImagesOf(userConfigurations, d)[j].qrFilename =
                        QrCodesOf(userConfigurations, d)[i].filename

\* position i of d's QR entries is marked in cfgs
MarkedAt(cfgs, d, i) == i \in 1..Len(QrCodesOf(cfgs, d)) /\ QrCodesOf(cfgs, d)[i].hasPhoto

\* the step appends a photo of file f to d's photos
AppendsPhotoOf(d, f) ==
    /\ Len(ItemImagesOf(userConfigurations', d)) = Len(ItemImagesOf(userConfigurations, d)) + 1
    /\ SubSeq(ItemImagesOf(userConfigurations', d), 1, Len(ItemImagesOf(userConfigurations, d)))
          = ItemImagesOf(userConfigurations, d)
    /\ ItemImagesOf(userConfigurations', d)[Len(ItemImagesOf(userConfigurations', d))].qrFilename = f

\* a mark appears only in the step of a photo upload that appends a photo of the
\* entry's file, and a mark disappears only in a step that replaces the QR entries
\* by an uploaded list
HasPhotoStep ==
    \A d \in DOMAIN userConfigurations :
        \A i \in 1..(Len(QrCodesOf(userConfigurations, d)) + Len(QrCodesOf(userConfigurations', d))) :
            /\ (~MarkedAt(userConfigurations, d, i) /\ MarkedAt(userConfigurations', d, i)) =>
                  /\ lastOp'.op = "upload-photo" /\ lastOp'.done /\ lastOp'.session = d
                  /\ lastOp'.qrFilename = QrCodesOf(userConfigurations', d)[i].filename
                  /\ AppendsPhotoOf(d, QrCodesOf(userConfigurations', d)[i].filename)
            /\ (MarkedAt(userConfigurations, d, i) /\ ~MarkedAt(userConfigurations', d, i)) =>
                  /\ BundleAccepted'
                  /\ \A j \in 1..Len(QrCodesOf(userConfigurations', d)) :
                        ~QrCodesOf(userConfigurations', d)[j].hasPhoto

\* C37: in every reachable state every QR entry with hasPhoto = true has a photo
\* entry of its filename in the same device's Configuration; hasPhoto becomes true
\* only in the step that appends such a photo entry and becomes false only by a
\* bundle replace.
C37_HasPhotoBacked == [](HasPhotoBacked) /\ [][HasPhotoStep]_vars

\* a photo upload has just marked the QR entry of a Configuration with several entries
C37_MarkedWithPhoto ==
    /\ lastOp.op = "upload-photo" /\ lastOp.done /\ ~lastOp.orphan
    /\ MarkedAt(userConfigurations, lastOp.session,
                FindQr(QrCodesOf(userConfigurations, lastOp.session), lastOp.qrFilename))
    /\ Len(QrCodesOf(userConfigurations, lastOp.session)) >= 2

\* ----------------------------------------------------------------------
\* The location history and the current location
\* ----------------------------------------------------------------------
\* C38: in every reachable state in which an update has been accepted, the last
\* record of the location history is the current location record (coordinates,
\* deviceId and timestamp), and the history is empty exactly when no update has been
\* accepted.
C38_LastIsCurrent ==
    /\ acceptedLog # <<>> =>
          /\ locationHistory # <<>>
          /\ locationHistory[Len(locationHistory)] = currentLocation
          /\ currentLocation = acceptedLog[Len(acceptedLog)]
    /\ (locationHistory = <<>>) <=> (acceptedLog = <<>>)

\* an accepted update has followed an accepted update with another record: the
\* history ends with the new record, after the old one
C38_SecondUpdate ==
    /\ lastOp.op \in {"locationUpdate", "POST /api/location"}
    /\ Len(locationHistory) >= 2
    /\ locationHistory[Len(locationHistory)] = currentLocation
    /\ locationHistory[Len(locationHistory) - 1] # currentLocation
    /\ currentLocation.latitude # Null

====
